---- MODULE Spec2Model ----
(***************************************************************************)
(* Model of the Hindi MCQ extraction core of Rk_Bot:                       *)
(*   core/ocr_engine.py   HindiOCREngine (normalize_text, fix_matras,      *)
(*                        get_ocr_confidence), MCQDetector                 *)
(*   core/pdf_handler.py  PDFHandler                                       *)
(*   core/test_generator.py  TestGenerator (exports)                       *)
(*   core/file_storage.py    FileStorage (habits, persistence)             *)
(* Strings are sequences of characters; a character is written as a short  *)
(* ASCII mnemonic (see the character classes below).                       *)
(***************************************************************************)
EXTENDS Integers, Sequences, FiniteSets, TLC

VARIABLES
    n_in,        \* normalizer: the raw text handed to the first normalize_text call
    n_prev,      \* normalizer: the argument of the latest normalize_text call
    n_text,      \* normalizer: the result of the latest normalize_text call
    n_pass,      \* normalizer: number of normalize_text calls made so far
    p_blocks,    \* parser (input description): the blocks a block-structured
                 \*   input text was built from, <<>> for any other input
    p_text,      \* parser: the lines of the input, text.split('\n')
    p_i,         \* parser: index of the next line the for loop reads
    p_cur,       \* parser: current_question, <<>> for None, else <<[number, text]>>
    p_opts,      \* parser: current_options
    p_questions, \* parser: questions, the list being returned
    p_srcs,      \* parser (history): for each record of questions, the index of
                 \*   the line that started it
    p_cur_src,   \* parser (history): index of the line that started current_question
    p_pc,        \* parser: "idle", "loop" (inside the for loop), "done" (returned)
    a_text,      \* answer resolver: the question text passed in
    a_result,    \* answer resolver: the value returned ("unset" before the call)
    a_pc,        \* answer resolver: "idle", "call", "done"
    c_data,      \* confidence: what pytesseract.image_to_data does for the image,
                 \*   [raises, tokens]; a token is [conf, text]
    c_result,    \* confidence: the value returned, a fraction [num, den]
    c_pc,        \* confidence: "idle", "call", "done"
    cl_out1,     \* classifier: outcome of pdfminer's extract_text, [st, text]
    cl_out2,     \* classifier: outcome of the PyMuPDF extraction, [st, text]
    cl_result,   \* classifier: "unset", or the value returned, "True" / "False"
    cl_pc,       \* classifier: "idle", "pdfminer", "fitz", "done", "raised"
    s_pages,     \* scanned PDF: the pages of the document, each [fail, raw, conf]:
                 \*   what OCR of the page's image does, raises ("preprocess",
                 \*   "recognize") or not ("none"), the raw recognized text, and
                 \*   what image_to_data gives for it
    s_fs,        \* scanned PDF: the files of self.temp_dir, path -> content
    s_image_paths, \* scanned PDF: image_paths
    s_i,         \* scanned PDF: index of the page the OCR loop handles next
    s_page_texts,  \* scanned PDF: page_texts, the list being returned
    s_pc,        \* scanned PDF: "idle", "convert", "ocr", "done"
    h_docs,      \* shared handler: for each invocation, the pages of its document
    h_fs,        \* shared handler: the files of the one self.temp_dir
    h_image_paths, \* shared handler: image_paths of each invocation
    h_i,         \* shared handler: next index of each invocation's OCR loop
    h_page_texts,  \* shared handler: page_texts of each invocation
    h_pc,        \* shared handler: "idle", "convert", "ocr", "done" per invocation
    im_in,       \* preprocessing: the image file, [readable, foreground, rect,
                 \*   contours, enhance]: whether cv2.imread can read it, whether
                 \*   the thresholded image has a non-zero pixel, the angle
                 \*   cv2.minAreaRect reports for those pixels, the number of
                 \*   contours cv2.findContours finds after the rotation, and
                 \*   the enhance argument
    im_pc,       \* preprocessing: "idle", "read", "threshold", "deskew", "crop",
                 \*   "done" (returned), "raised" (an exception left the function)
    im_angle,    \* preprocessing: <<>>, or <<a>> for the correction angle a
    im_out,      \* preprocessing: the image held, [channels, cropped, scale]
    x_questions, \* exporter: the list of question records passed in
    x_now,       \* exporter: the text datetime.now().isoformat() gives
    x_names,     \* exporter: the file names passed in, [html, json, base]
    x_fs,        \* exporter: the files of the output directory, name -> text
    x_ret,       \* exporter: the paths returned so far, in call order
    x_parsed,    \* exporter: the value json.load gives for the written file
    x_pc,        \* exporter: "idle", then the next call, then "done"
    hb_habits,   \* habits: self._habits[user_id], each habit [name, streak,
                 \*   last_done]; last_done is <<>> for None, else <<date_str>>
    hb_log,      \* habits (history): the mark_habit_done calls that reached a
                 \*   habit, in call order, each [index, date]
    st_mem,      \* storage: the dictionaries of the live FileStorage object,
                 \*   [users, tasks, habits, expenses]; a dictionary is the
                 \*   sequence of its [k, val] items in insertion order, k the
                 \*   key as a Python value (an int or a str)
    st_files,    \* storage: the text of users.json, tasks.json, habits.json
                 \*   and expenses.json in data_dir, <<>> for a missing file
    st_calls     \* storage: number of save_user/add_* calls made so far

normVars == <<n_in, n_prev, n_text, n_pass>>
parseVars == <<p_blocks, p_text, p_i, p_cur, p_opts, p_questions, p_srcs, p_cur_src, p_pc>>
ansVars == <<a_text, a_result, a_pc>>
confVars == <<c_data, c_result, c_pc>>
classVars == <<cl_out1, cl_out2, cl_result, cl_pc>>
scanVars == <<s_pages, s_fs, s_image_paths, s_i, s_page_texts, s_pc>>
handlerVars == <<h_docs, h_fs, h_image_paths, h_i, h_page_texts, h_pc>>
imageVars == <<im_in, im_pc, im_angle, im_out>>
exportVars == <<x_questions, x_now, x_names, x_fs, x_ret, x_parsed, x_pc>>
habitVars == <<hb_habits, hb_log>>
storeVars == <<st_mem, st_files, st_calls>>
otherVars == <<handlerVars, imageVars, exportVars, habitVars, storeVars>>
vars == <<normVars, parseVars, ansVars, confVars, classVars, scanVars, otherVars>>

(***************************************************************************)
(* Bounds of the model.                                                    *)
(***************************************************************************)
MaxTextLen == 3
MaxPasses == 2
MaxLines == 4
MaxBlocks == 2
MaxOptions == 5
MaxAnswerPieces == 5
MaxTokens == 3
MaxRuns == 3
MaxPages == 2
MaxContours == 2
MaxStrLen == 2
MaxExportQuestions == 2
MaxDay == 3
MaxMarks == 3
MaxCalls == 3

(***************************************************************************)
(* Generic sequence helpers.                                               *)
(***************************************************************************)
SeqsUpTo(S, n) == UNION {[1..k -> S] : k \in 0..n}

RECURSIVE MapSeq(_, _)
MapSeq(Op(_), s) ==
    IF s = <<>> THEN <<>> ELSE <<Op(Head(s))>> \o MapSeq(Op, Tail(s))

RECURSIVE FlatMapSeq(_, _)
FlatMapSeq(Op(_), s) ==
    IF s = <<>> THEN <<>> ELSE Op(Head(s)) \o FlatMapSeq(Op, Tail(s))

(***************************************************************************)
(* Characters of the text normalizer.                                      *)
(*   "a"      an ASCII letter            "1"    an ASCII digit             *)
(*   "hy"     ASCII hyphen  -            "pipe" ASCII |                    *)
(*   "bt"     ASCII backtick             "ap"   ASCII apostrophe           *)
(*   "dq"     ASCII double quote         "sp"   space      "nl" line feed  *)
(*   "ka"     a Devanagari consonant     "aa", "ii"  the matras U+093E,    *)
(*   U+0940   "d1" Devanagari digit one  "danda" U+0964                    *)
(*   "fw1"    fullwidth digit one U+FF11 (NFKC maps it to ASCII 1)         *)
(*   "emdash" U+2014  "lsq" U+2018  "rsq" U+2019  "rdq" U+201D             *)
(***************************************************************************)
AsciiChars == {"a", "1", "hy", "pipe", "bt", "ap", "dq", "sp", "nl"}
DevanagariChars == {"ka", "aa", "ii", "d1", "danda"}
OtherChars == {"fw1", "emdash", "lsq", "rsq", "rdq"}
WhitespaceChars == {"sp", "nl"}
RawChars == {"a", "1", "hy", "bt", "ap", "dq", "sp", "nl", "ka", "aa", "fw1", "emdash"}

\* unicodedata.normalize('NFKC', text): compatibility characters are replaced
\* by their decomposition; every other character of the alphabet is NFKC-stable.
nfkc_char(c) == IF c = "fw1" THEN <<"1">> ELSE <<c>>
nfkc(text) == FlatMapSeq(nfkc_char, text)

\* re.sub(r'[^\u0000-\u007F\u0900-\u097F\s]', '', normalized)
keep_char(c) ==
    IF c \in AsciiChars \cup DevanagariChars \cup WhitespaceChars THEN <<c>> ELSE <<>>
remove_broken(text) == FlatMapSeq(keep_char, text)

\* the replacements table; every key and every value is one character, so the
\* successive str.replace calls act on each character independently (no value
\* is a key of a later entry).
replacement(c) ==
    CASE c = "1" -> "d1"
      [] c = "pipe" -> "danda"
      [] c = "hy" -> "emdash"
      [] c = "bt" -> "lsq"
      [] c = "ap" -> "rsq"
      [] c = "dq" -> "rdq"
      [] OTHER -> c
apply_replacements(text) == MapSeq(replacement, text)

\* re.sub(r'\s+', ' ', normalized): every maximal run of whitespace
\* (line feeds included) becomes one space.
RECURSIVE collapse_ws(_)
collapse_ws(text) ==
    IF text = <<>> THEN <<>>
    ELSE IF Head(text) \in WhitespaceChars
         THEN IF Len(text) > 1 /\ text[2] \in WhitespaceChars
              THEN collapse_ws(Tail(text))
              ELSE <<"sp">> \o collapse_ws(Tail(text))
         ELSE <<Head(text)>> \o collapse_ws(Tail(text))

\* re.sub(r'\n\s*', '\n', normalized): a line feed and the whitespace after it
\* become one line feed.
RECURSIVE drop_ws_prefix(_)
drop_ws_prefix(text) ==
    IF text # <<>> /\ Head(text) \in WhitespaceChars
    THEN drop_ws_prefix(Tail(text)) ELSE text
RECURSIVE normalize_line_breaks(_)
normalize_line_breaks(text) ==
    IF text = <<>> THEN <<>>
    ELSE IF Head(text) = "nl"
         THEN <<"nl">> \o normalize_line_breaks(drop_ws_prefix(Tail(text)))
         ELSE <<Head(text)>> \o normalize_line_breaks(Tail(text))

\* text.replace(m + ' ', m) for one matra m: non-overlapping, left to right.
RECURSIVE replace_matra(_, _)
replace_matra(m, text) ==
    IF text = <<>> THEN <<>>
    ELSE IF Head(text) = m /\ Len(text) > 1 /\ text[2] = "sp"
         THEN <<m>> \o replace_matra(m, Tail(Tail(text)))
         ELSE <<Head(text)>> \o replace_matra(m, Tail(text))

\* fix_matras: the table's entries in dictionary order (two of the six modelled).
matra_fixes == <<"aa", "ii">>
RECURSIVE fix_matras_from(_, _)
fix_matras_from(k, text) ==
    IF k > Len(matra_fixes) THEN text
    ELSE fix_matras_from(k + 1, replace_matra(matra_fixes[k], text))
fix_matras(text) == fix_matras_from(1, text)

\* str.strip()
RECURSIVE rstrip(_)
rstrip(text) ==
    IF text # <<>> /\ text[Len(text)] \in WhitespaceChars
    THEN rstrip(SubSeq(text, 1, Len(text) - 1)) ELSE text
strip(text) == rstrip(drop_ws_prefix(text))

normalize_text(text) ==
    strip(fix_matras(normalize_line_breaks(collapse_ws(
        apply_replacements(remove_broken(nfkc(text)))))))

(***************************************************************************)
(* Characters of the line-oriented parser (MCQDetector).  A line is a      *)
(* sequence of characters without line feed.                               *)
(*   "pra" "shn"  the Devanagari word for "question": its first letter    *)
(*                with the virama that follows it, and its other letters   *)
(*   "Q"          the Latin letter Q                                       *)
(*   "1", "2"     ASCII digits       "dot" "lp" "rp" "colon"  . ( ) :      *)
(*   "A".."D"     Latin option letters, "b" lowercase b, "E" a Latin       *)
(*                letter outside A-D, "w" any other letter                 *)
(*   "ka" "kha" "ga" "gha" "cha"   Devanagari option letters               *)
(*   "A" "nswer"  the word Answer;  "sa" "hi_uttar"  the two-word          *)
(*                Devanagari answer marker: first letter, other letters    *)
(***************************************************************************)
Digits == {"1", "2"}
LatinAD == {"A", "B", "C", "D", "b"}
DevanagariAD == {"ka", "kha", "ga", "gha"}
DevanagariOptionLetters == {"ka", "kha", "ga", "gha", "cha"}
\* [^\d\W]: a word character that is no digit
Letters ==
    {"pra", "shn", "Q", "E", "w", "nswer", "sa", "hi_uttar"} \cup LatinAD
        \cup DevanagariOptionLetters

At(line, i) == IF i >= 1 /\ i <= Len(line) THEN line[i] ELSE "eol"

\* \s* from position i: the position after the run of whitespace
RECURSIVE SkipSpaces(_, _)
SkipSpaces(line, i) ==
    IF At(line, i) \in WhitespaceChars THEN SkipSpaces(line, i + 1) ELSE i

\* \d+ from position i: the position after the run of digits (i when none)
RECURSIVE DigitsEnd(_, _)
DigitsEnd(line, i) ==
    IF At(line, i) \in Digits THEN DigitsEnd(line, i + 1) ELSE i

NoMatch == [start |-> 0, end |-> 0, g1from |-> 0, g1to |-> 0]
IsMatch(m) == m.start > 0
Group0(line, m) == SubSeq(line, m.start, m.end - 1)
Group1(line, m) == SubSeq(line, m.g1from, m.g1to - 1)

\* question_patterns[k] tried at position i of the line (as re.match would at i)
\*   1  pra shn\s*(\d+)\.      2  Q\.?\s*(\d+)      3  (\d+)\.      4  \((\d+)\)
question_pattern_at(k, line, i) ==
    CASE k = 1 ->
           LET j == SkipSpaces(line, i + 2)
               e == DigitsEnd(line, j)
           IN  IF At(line, i) = "pra" /\ At(line, i + 1) = "shn"
                  /\ e > j /\ At(line, e) = "dot"
               THEN [start |-> i, end |-> e + 1, g1from |-> j, g1to |-> e]
               ELSE NoMatch
      [] k = 2 ->
           LET d == IF At(line, i + 1) = "dot" THEN i + 2 ELSE i + 1
               j == SkipSpaces(line, d)
               e == DigitsEnd(line, j)
           IN  IF At(line, i) = "Q" /\ e > j
               THEN [start |-> i, end |-> e, g1from |-> j, g1to |-> e]
               ELSE NoMatch
      [] k = 3 ->
           LET e == DigitsEnd(line, i)
           IN  IF e > i /\ At(line, e) = "dot"
               THEN [start |-> i, end |-> e + 1, g1from |-> i, g1to |-> e]
               ELSE NoMatch
      [] k = 4 ->
           LET e == DigitsEnd(line, i + 1)
           IN  IF At(line, i) = "lp" /\ e > i + 1 /\ At(line, e) = "rp"
               THEN [start |-> i, end |-> e + 1, g1from |-> i + 1, g1to |-> e]
               ELSE NoMatch
NumQuestionPatterns == 4

\* re.search(question_patterns[k], line): the leftmost match
RECURSIVE question_search_from(_, _, _)
question_search_from(k, line, i) ==
    IF i > Len(line) THEN NoMatch
    ELSE IF IsMatch(question_pattern_at(k, line, i))
         THEN question_pattern_at(k, line, i)
         ELSE question_search_from(k, line, i + 1)
question_search(k, line) == question_search_from(k, line, 1)

\* the loop over question_patterns: the first pattern that matches wins
RECURSIVE first_question_pattern(_, _)
first_question_pattern(k, line) ==
    IF k > NumQuestionPatterns THEN 0
    ELSE IF IsMatch(question_search(k, line)) THEN k
         ELSE first_question_pattern(k + 1, line)
\* a mutant of question_match: the match that begins first in the line wins
RECURSIVE question_match_leftmost_from(_, _)
question_match_leftmost_from(line, i) ==
    IF i > Len(line) THEN NoMatch
    ELSE IF \E k \in 1..NumQuestionPatterns : IsMatch(question_pattern_at(k, line, i))
         THEN question_pattern_at(
                  CHOOSE k \in 1..NumQuestionPatterns :
                      /\ IsMatch(question_pattern_at(k, line, i))
                      /\ \A j \in 1..(k - 1) : ~IsMatch(question_pattern_at(j, line, i)),
                  line, i)
         ELSE question_match_leftmost_from(line, i + 1)
question_match_leftmost(line) == question_match_leftmost_from(line, 1)

\* a mutant of question_match: the list lacks the bare 'N.' pattern
question_match_no_bare(line) ==
    IF IsMatch(question_search(1, line)) THEN question_search(1, line)
    ELSE IF IsMatch(question_search(2, line)) THEN question_search(2, line)
    ELSE IF IsMatch(question_search(4, line)) THEN question_search(4, line)
    ELSE NoMatch

question_match(line) ==
    LET k == first_question_pattern(1, line)
    IN  IF k = 0 THEN NoMatch ELSE question_search(k, line)

\* option_patterns[k] tried at the start of the line (re.match)
\*   1  [A-Da-d]\)   2  [A-Da-d]\.   3  \((ka|kha|ga|gha|cha|...)\)   4  (\d+)\.
option_pattern_match(k, line) ==
    CASE k = 1 ->
           IF At(line, 1) \in LatinAD /\ At(line, 2) = "rp"
           THEN [start |-> 1, end |-> 3, g1from |-> 0, g1to |-> 0] ELSE NoMatch
      [] k = 2 ->
           IF At(line, 1) \in LatinAD /\ At(line, 2) = "dot"
           THEN [start |-> 1, end |-> 3, g1from |-> 0, g1to |-> 0] ELSE NoMatch
      [] k = 3 ->
           IF At(line, 1) = "lp" /\ At(line, 2) \in DevanagariOptionLetters
              /\ At(line, 3) = "rp"
           THEN [start |-> 1, end |-> 4, g1from |-> 2, g1to |-> 3] ELSE NoMatch
      [] k = 4 -> question_pattern_at(3, line, 1)
NumOptionPatterns == 4

\* a mutant of option_match: the list lacks its first pattern
option_match_no_paren(line) ==
    IF IsMatch(option_pattern_match(2, line)) THEN option_pattern_match(2, line)
    ELSE IF IsMatch(option_pattern_match(3, line)) THEN option_pattern_match(3, line)
    ELSE IF IsMatch(option_pattern_match(4, line)) THEN option_pattern_match(4, line)
    ELSE NoMatch

RECURSIVE first_option_pattern(_, _)
first_option_pattern(k, line) ==
    IF k > NumOptionPatterns THEN 0
    ELSE IF IsMatch(option_pattern_match(k, line)) THEN k
         ELSE first_option_pattern(k + 1, line)
option_match(line) ==
    LET k == first_option_pattern(1, line)
    IN  IF k = 0 THEN NoMatch ELSE option_pattern_match(k, line)

\* re.sub(r'^.*?(?=[^\d\W])', '', line).  The pattern matches only at the
\* start of the line.  When the line starts with a non-letter, the shortest
\* prefix followed by a letter is removed.  When it starts with a letter the
\* first match is empty, and re.sub then takes the shortest non-empty match
\* at the same place: the prefix up to the next letter.  Without such a letter
\* the line is left as it is.
RECURSIVE drop_until_letter(_)
drop_until_letter(line) ==
    IF line = <<>> \/ Head(line) \in Letters THEN line
    ELSE drop_until_letter(Tail(line))
HasLetter(line) == \E i \in 1..Len(line) : line[i] \in Letters
strip_question_lead(line) ==
    IF line = <<>> THEN line
    ELSE IF Head(line) \in Letters
         THEN IF HasLetter(Tail(line)) THEN drop_until_letter(Tail(line)) ELSE line
         ELSE IF HasLetter(line) THEN drop_until_letter(line) ELSE line

\* a mutant of flush_condition: the options are not looked at
flush_condition_any(cur, opts) == cur # <<>>

\* the test guarding both flushes: `if current_question and current_options`
\* (current_question is None or a non-empty dict, current_options a list)
flush_condition(cur, opts) == cur # <<>> /\ opts # <<>>

\* a mutant of option_text: the lead is kept
option_text_with_lead(line, om) == strip(line)

\* option_text = line[len(option_match.group(0)):].strip()
option_text(line, om) == strip(SubSeq(line, Len(Group0(line, om)) + 1, Len(line)))

\* a mutant of continuation: the line is joined without a space
continuation_no_space(text, line) == text \o line

\* current_question['text'] += ' ' + line
continuation(text, line) == text \o <<"sp">> \o line

\* the record appended to questions
question_record(cur, opts) ==
    [question_number |-> cur[1].number,
     question_text |-> strip(cur[1].text),
     options |-> MapSeq(strip, opts),
     correct_answer |-> "None"]

(***************************************************************************)
(* Answer resolver (MCQDetector.detect_correct_answer, normalize_answer).  *)
(***************************************************************************)
\* answer_patterns[k] tried at position i; word is the Devanagari marker
\* (k = 1) or Answer (k = 2):   word\s*[:=]\s*([A-Da-d]|\(?(ka|kha|ga|gha)\)?)
answer_words == << <<"sa", "hi_uttar">>, <<"A", "nswer">> >>
answer_pattern_at(k, text, i) ==
    LET j == SkipSpaces(text, i + 2)
        g == SkipSpaces(text, j + 1)
        d == IF At(text, g) = "lp" THEN g + 1 ELSE g
        e == IF At(text, d + 1) = "rp" THEN d + 2 ELSE d + 1
    IN  IF At(text, i) = answer_words[k][1] /\ At(text, i + 1) = answer_words[k][2]
           /\ At(text, j) \in {"colon", "eq"}
        THEN IF At(text, g) \in LatinAD
             THEN [start |-> i, end |-> g + 1, g1from |-> g, g1to |-> g + 1]
             ELSE IF At(text, d) \in DevanagariAD
                  THEN [start |-> i, end |-> e, g1from |-> g, g1to |-> e]
                  ELSE NoMatch
        ELSE NoMatch

RECURSIVE answer_search_from(_, _, _)
answer_search_from(k, text, i) ==
    IF i > Len(text) THEN NoMatch
    ELSE IF IsMatch(answer_pattern_at(k, text, i))
         THEN answer_pattern_at(k, text, i)
         ELSE answer_search_from(k, text, i + 1)
answer_search(k, text) == answer_search_from(k, text, 1)

\* str.upper() on the captured token
upper_char(c) == IF c = "b" THEN "B" ELSE c
upper(s) == MapSeq(upper_char, s)

\* answer.strip('()')
RECURSIVE lstrip_parens(_)
lstrip_parens(s) ==
    IF s # <<>> /\ Head(s) \in {"lp", "rp"} THEN lstrip_parens(Tail(s)) ELSE s
RECURSIVE rstrip_parens(_)
rstrip_parens(s) ==
    IF s # <<>> /\ s[Len(s)] \in {"lp", "rp"}
    THEN rstrip_parens(SubSeq(s, 1, Len(s) - 1)) ELSE s
strip_parens(s) == rstrip_parens(lstrip_parens(s))

\* answer_map.get(key, None)
answer_map_shifted(key) ==
    CASE key = <<"A">> -> "B" [] key = <<"B">> -> "C"
      [] key = <<"C">> -> "D" [] key = <<"D">> -> "A"
      [] key = <<"ka">> -> "B" [] key = <<"kha">> -> "C"
      [] key = <<"ga">> -> "D" [] key = <<"gha">> -> "A"
      [] OTHER -> "None"
answer_map(key) ==
    CASE key = <<"A">> -> "A" [] key = <<"B">> -> "B"
      [] key = <<"C">> -> "C" [] key = <<"D">> -> "D"
      [] key = <<"ka">> -> "A" [] key = <<"kha">> -> "B"
      [] key = <<"ga">> -> "C" [] key = <<"gha">> -> "D"
      [] key = <<"cha">> -> "E"
      [] OTHER -> "None"

normalize_answer(answer) == answer_map(strip_parens(answer))

\* the loop over answer_patterns: the first pattern found anywhere in the text
\* decides; "None" when neither is found.
detect_correct_answer(question_text) ==
    IF IsMatch(answer_search(1, question_text))
    THEN normalize_answer(upper(strip(
             Group1(question_text, answer_search(1, question_text)))))
    ELSE IF IsMatch(answer_search(2, question_text))
         THEN normalize_answer(upper(strip(
                  Group1(question_text, answer_search(2, question_text)))))
         ELSE "None"

(***************************************************************************)
(* HindiOCREngine.get_ocr_confidence.  The value returned is sum/len, a    *)
(* float: it is kept as the fraction [num, den]; `return 0` is 0/1.        *)
(* Token confidences are integers (-1 is Tesseract's "no confidence").     *)
(***************************************************************************)
Zero == [num |-> 0, den |-> 1]

\* int(conf) on an integer confidence
int_of(conf) == conf

\* a mutant of qualifies: the sentinel is not excluded
qualifies_any_conf(tok) == strip(tok.text) # <<>>

\* `conf != -1 and data['text'][i].strip()`
qualifies(tok) == tok.conf # -1 /\ strip(tok.text) # <<>>

\* the loop building `confidences`
RECURSIVE confidences(_)
confidences(tokens) ==
    IF tokens = <<>> THEN <<>>
    ELSE (IF qualifies(Head(tokens)) THEN <<int_of(Head(tokens).conf)>> ELSE <<>>)
             \o confidences(Tail(tokens))

\* sum(confidences)
RECURSIVE sum(_)
sum(xs) == IF xs = <<>> THEN 0 ELSE Head(xs) + sum(Tail(xs))

\* the whole function: an exception of image_to_data (or Image.open) is caught
\* and 0 is returned
get_ocr_confidence(data) ==
    IF data.raises THEN Zero
    ELSE IF confidences(data.tokens) # <<>>
         THEN [num |-> sum(confidences(data.tokens)),
               den |-> Len(confidences(data.tokens))]
         ELSE Zero

(***************************************************************************)
(* PDFHandler.is_text_based.  An extracted text is kept run-length         *)
(* encoded: a sequence of runs [ws, n], n whitespace (ws) or n other       *)
(* characters.                                                             *)
(***************************************************************************)
Threshold == 100
NotRun == [st |-> "not_run", text |-> <<>>]
Raised == [st |-> "raise", text |-> <<>>]

\* text.strip() on runs
RECURSIVE lstrip_runs(_)
lstrip_runs(text) ==
    IF text # <<>> /\ Head(text).ws THEN lstrip_runs(Tail(text)) ELSE text
RECURSIVE rstrip_runs(_)
rstrip_runs(text) ==
    IF text # <<>> /\ text[Len(text)].ws
    THEN rstrip_runs(SubSeq(text, 1, Len(text) - 1)) ELSE text
strip_runs(text) == rstrip_runs(lstrip_runs(text))

\* len(text)
RECURSIVE text_len(_)
text_len(text) == IF text = <<>> THEN 0 ELSE Head(text).n + text_len(Tail(text))

\* a mutant of exceeds_threshold: >= for >
reaches_threshold(text) ==
    text_len(strip_runs(text)) > 0 /\ text_len(strip_runs(text)) >= Threshold

\* `text.strip() and len(text.strip()) > 100`
exceeds_threshold(text) ==
    text_len(strip_runs(text)) > 0 /\ text_len(strip_runs(text)) > Threshold

\* the first try block: return True, or fall through to the second
pdfminer_step(o) ==
    IF o.st = "raise" THEN [pc |-> "fitz", result |-> "unset"]
    ELSE IF exceeds_threshold(o.text) THEN [pc |-> "done", result |-> "True"]
         ELSE [pc |-> "fitz", result |-> "unset"]

\* a mutant of fitz_step: the exception is not caught
fitz_step_uncaught(o) ==
    IF o.st = "raise" THEN [pc |-> "raised", result |-> "unset"]
    ELSE IF exceeds_threshold(o.text) THEN [pc |-> "done", result |-> "True"]
         ELSE [pc |-> "done", result |-> "False"]

\* the second try block and the final `return False`
fitz_step(o) ==
    IF o.st = "raise" THEN [pc |-> "done", result |-> "False"]
    ELSE IF exceeds_threshold(o.text) THEN [pc |-> "done", result |-> "True"]
         ELSE [pc |-> "done", result |-> "False"]

(***************************************************************************)
(* PDFHandler.extract_text_from_scanned_pdf and the files of temp_dir.     *)
(* A path is [kind, n]: "page" n is temp_dir/page_n.png, "raster" n is the *)
(* file pdf2image itself writes into output_folder for page n.             *)
(***************************************************************************)
EmptyDir == [p \in {} |-> 0]
PagePath(n) == [kind |-> "page", n |-> n]
RasterPath(n) == [kind |-> "raster", n |-> n]
WriteFile(fs, path, content) ==
    [q \in DOMAIN fs \cup {path} |-> IF q = path THEN content ELSE fs[q]]
RemoveFile(fs, path) == [q \in DOMAIN fs \ {path} |-> fs[q]]

\* convert_from_path(..., output_folder=self.temp_dir) for the first n pages
RECURSIVE write_rasters(_, _, _)
write_rasters(fs, pages, n) ==
    IF n = 0 THEN fs
    ELSE WriteFile(write_rasters(fs, pages, n - 1), RasterPath(n), pages[n])

\* the loop saving page_1.png .. page_n.png
RECURSIVE save_pages(_, _, _)
save_pages(fs, pages, n) ==
    IF n = 0 THEN fs
    ELSE WriteFile(save_pages(fs, pages, n - 1), PagePath(n), pages[n])

\* ocr_engine.extract_text(img_path): cv2.imread of a missing file gives None
\* and cvtColor raises; preprocessing or recognition of the page may raise;
\* otherwise the recognized text is normalized.
extract_text_raises(fs, path) ==
    path \notin DOMAIN fs \/ fs[path].fail # "none"
extract_text(fs, path) == normalize_text(fs[path].raw)

\* ocr_engine.get_ocr_confidence(img_path): Image.open of a missing file raises
\* inside the function's own try block
image_confidence(fs, path) ==
    IF path \notin DOMAIN fs THEN Zero ELSE get_ocr_confidence(fs[path].conf)

\* a mutant of page_record: the record carries the 0-based loop index
page_record_zero_based(i, fs, path) ==
    IF extract_text_raises(fs, path)
    THEN [page_number |-> i - 1, text |-> <<>>, confidence |-> Zero]
    ELSE [page_number |-> i - 1, text |-> extract_text(fs, path),
          confidence |-> image_confidence(fs, path)]

\* the body of the OCR loop for page i (1-based): the record appended
page_record(i, fs, path) ==
    IF extract_text_raises(fs, path)
    THEN [page_number |-> i, text |-> <<>>, confidence |-> Zero]
    ELSE [page_number |-> i, text |-> extract_text(fs, path),
          confidence |-> image_confidence(fs, path)]

\* a mutant of next_page: a page that raised ends the loop
next_page_break(i, raised, n) == IF raised THEN n + 1 ELSE i + 1

\* the for loop's next index: the except branch does not leave the loop
next_page(i, raised, n) == i + 1

\* extract_text_from_pdf: the dictionary returned, from the classification,
\* the single page of extract_text_from_text_pdf and the list of
\* extract_text_from_scanned_pdf
extract_text_from_pdf(text_based, text_pages, page_texts) ==
    IF text_based THEN [type |-> "text", pages |-> text_pages]
    ELSE [type |-> "scanned", pages |-> page_texts]

\* "Clean up temp images": os.remove of every path of image_paths
RECURSIVE remove_all(_, _)
remove_all(fs, paths) ==
    IF paths = <<>> THEN fs ELSE remove_all(RemoveFile(fs, Head(paths)), Tail(paths))

(***************************************************************************)
(* Components at rest: each specification runs one component and leaves    *)
(* the others in these states.                                             *)
(***************************************************************************)
IdleNorm == n_in = <<>> /\ n_prev = <<>> /\ n_text = <<>> /\ n_pass = 0
IdleParse ==
    /\ p_blocks = <<>> /\ p_text = <<>> /\ p_i = 1 /\ p_cur = <<>> /\ p_opts = <<>>
    /\ p_questions = <<>> /\ p_srcs = <<>> /\ p_cur_src = 0 /\ p_pc = "idle"
IdleAns == a_text = <<>> /\ a_result = "unset" /\ a_pc = "idle"
IdleConf ==
    /\ c_data = [raises |-> FALSE, tokens |-> <<>>]
    /\ c_result = Zero /\ c_pc = "idle"
IdleClass ==
    /\ cl_out1 = NotRun /\ cl_out2 = NotRun
    /\ cl_result = "unset" /\ cl_pc = "idle"
IdleScan ==
    /\ s_pages = <<>> /\ s_fs = EmptyDir /\ s_image_paths = <<>>
    /\ s_i = 1 /\ s_page_texts = <<>> /\ s_pc = "idle"
Invocations == {1, 2}
IdleHandler ==
    /\ h_docs = [t \in Invocations |-> <<>>] /\ h_fs = EmptyDir
    /\ h_image_paths = [t \in Invocations |-> <<>>]
    /\ h_i = [t \in Invocations |-> 1]
    /\ h_page_texts = [t \in Invocations |-> <<>>]
    /\ h_pc = [t \in Invocations |-> "idle"]
NoImage == [channels |-> 0, cropped |-> FALSE, scale |-> 1]
IdleImage ==
    /\ im_in = [readable |-> FALSE, foreground |-> FALSE, rect |-> 0,
                contours |-> 0, enhance |-> FALSE]
    /\ im_pc = "idle" /\ im_angle = <<>> /\ im_out = NoImage
PyNone == [t |-> "none", v |-> <<>>]
\* a file name is [stem, ext]: "<stem>.<ext>" in the output directory
FileName(stem, ext) == [stem |-> stem, ext |-> ext]
NoName == FileName("", "")
IdleExport ==
    /\ x_questions = <<>> /\ x_now = <<>> /\ x_fs = EmptyDir
    /\ x_names = [html |-> NoName, json |-> NoName, base |-> ""]
    /\ x_ret = <<>> /\ x_parsed = PyNone /\ x_pc = "idle"
IdleHabit == hb_habits = <<>> /\ hb_log = <<>>
EmptyStore == [users |-> <<>>, tasks |-> <<>>, habits |-> <<>>, expenses |-> <<>>]
IdleStore == st_mem = EmptyStore /\ st_files = EmptyStore /\ st_calls = 0
IdleOther == IdleHandler /\ IdleImage /\ IdleExport /\ IdleHabit /\ IdleStore

(***************************************************************************)
(* Text normalizer: repeated calls of normalize_text on its own output.    *)
(***************************************************************************)
InitNorm ==
    /\ n_in \in SeqsUpTo(RawChars, MaxTextLen)
    /\ n_prev = n_in
    /\ n_text = n_in
    /\ n_pass = 0
    /\ IdleParse /\ IdleAns /\ IdleConf /\ IdleClass /\ IdleScan /\ IdleOther

NormalizeText ==
    /\ n_pass < MaxPasses
    /\ n_prev' = n_text
    /\ n_text' = normalize_text(n_text)
    /\ n_pass' = n_pass + 1
    /\ UNCHANGED <<n_in, parseVars, ansVars, confVars, classVars, scanVars, otherVars>>

NextNorm == NormalizeText

SpecNorm == InitNorm /\ [][NextNorm]_vars

(***************************************************************************)
(* MCQDetector.extract_questions: one step per iteration of the for loop,  *)
(* and one for the flush after the loop and the return.                    *)
(***************************************************************************)
\* One iteration of `for line in lines`.
ProcessLine ==
    /\ p_pc = "loop"
    /\ p_i <= Len(p_text)
    /\ p_i' = p_i + 1
    /\ LET line == strip(p_text[p_i])
           qm == question_match(line)
           om == option_match(line)
       IN  IF line = <<>>
           THEN UNCHANGED <<p_cur, p_opts, p_questions, p_srcs, p_cur_src>>
           ELSE IF IsMatch(qm)
           THEN /\ IF flush_condition(p_cur, p_opts)
                   THEN /\ p_questions' =
                             Append(p_questions, question_record(p_cur, p_opts))
                        /\ p_srcs' = Append(p_srcs, p_cur_src)
                   ELSE UNCHANGED <<p_questions, p_srcs>>
                /\ p_cur' = <<[number |-> Group1(line, qm),
                               text |-> strip_question_lead(line)]>>
                /\ p_opts' = <<>>
                /\ p_cur_src' = p_i
           ELSE IF IsMatch(om) /\ p_cur # <<>>
           THEN /\ p_opts' = Append(p_opts, option_text(line, om))
                /\ UNCHANGED <<p_cur, p_questions, p_srcs, p_cur_src>>
           ELSE IF p_cur # <<>>
           THEN /\ p_cur' = <<[p_cur[1] EXCEPT !.text = continuation(@, line)]>>
                /\ UNCHANGED <<p_opts, p_questions, p_srcs, p_cur_src>>
           ELSE UNCHANGED <<p_cur, p_opts, p_questions, p_srcs, p_cur_src>>
    /\ UNCHANGED <<p_blocks, p_text, p_pc, normVars, ansVars, confVars, classVars, scanVars, otherVars>>

\* After the loop: "Save last question", then return questions.
FinishExtract ==
    /\ p_pc = "loop"
    /\ p_i > Len(p_text)
    /\ IF flush_condition(p_cur, p_opts)
       THEN /\ p_questions' = Append(p_questions, question_record(p_cur, p_opts))
            /\ p_srcs' = Append(p_srcs, p_cur_src)
       ELSE UNCHANGED <<p_questions, p_srcs>>
    /\ p_pc' = "done"
    /\ UNCHANGED <<p_blocks, p_text, p_i, p_cur, p_opts, p_cur_src>>
    /\ UNCHANGED <<normVars, ansVars, confVars, classVars, scanVars, otherVars>>

NextParse == ProcessLine \/ FinishExtract

\* Lines the parser is fed in SpecParse.
ParseLines ==
    { <<"pra", "shn", "sp", "1", "dot", "sp", "w">>,
      <<"Q", "dot", "2", "dot", "sp", "w">>,
      <<"1", "2", "dot", "sp", "w">>,
      <<"lp", "2", "rp", "sp", "w">>,
      <<"A", "rp", "sp", "w">>,
      <<"lp", "ka", "rp", "sp", "1", "2">>,
      <<"B", "dot", "sp", "1", "dot", "2">>,
      <<"E", "rp", "sp", "w">>,
      <<"sp", "A", "nswer", "colon", "sp", "B">>,
      <<"sp">> }

InitParse ==
    /\ p_blocks = <<>>
    /\ p_text \in SeqsUpTo(ParseLines, MaxLines)
    /\ p_i = 1 /\ p_cur = <<>> /\ p_opts = <<>>
    /\ p_questions = <<>> /\ p_srcs = <<>> /\ p_cur_src = 0
    /\ p_pc = "loop"
    /\ IdleNorm /\ IdleAns /\ IdleConf /\ IdleClass /\ IdleScan /\ IdleOther

SpecParse == InitParse /\ [][NextParse]_vars

(***************************************************************************)
(* extract_questions on block-structured texts: every block is a question  *)
(* header followed by k option lines labelled A), B), ...; blocks may be   *)
(* separated by a blank line.                                              *)
(***************************************************************************)
\* headers of the forms "<prashn> N. ..." and "Q.N. ...", with the number N
HeaderKinds ==
    { [form |-> "hindi", n |-> <<"1">>,
       line |-> <<"pra", "shn", "sp", "1", "dot", "sp", "w", "sp", "2", "sp", "w">>],
      [form |-> "hindi", n |-> <<"2">>,
       line |-> <<"pra", "shn", "sp", "2", "dot", "sp", "w">>],
      [form |-> "q", n |-> <<"2">>,
       line |-> <<"Q", "dot", "2", "dot", "sp", "w">>],
      [form |-> "q", n |-> <<"1">>,
       line |-> <<"Q", "dot", "1", "dot", "sp", "w", "sp",
                  "pra", "shn", "sp", "2", "dot">>] }
\* the labels of successive option lines; "F" and "G" stand for letters after E
OptionLabels == <<"A", "B", "C", "D", "E", "F", "G">>
OptionLine(j) ==
    <<OptionLabels[j], "rp", "sp">> \o (IF j % 2 = 1 THEN <<"1", "2">> ELSE <<"w">>)
Blocks == [header : HeaderKinds, k : 0..MaxOptions]
BlockLines(b, blank) ==
    <<b.header.line>> \o [j \in 1..b.k |-> OptionLine(j)]
        \o (IF blank THEN << <<>> >> ELSE <<>>)
RECURSIVE BlockText(_, _)
BlockText(bs, blank) ==
    IF bs = <<>> THEN <<>>
    ELSE BlockLines(Head(bs), blank) \o BlockText(Tail(bs), blank)

\* the two-question text of the end-to-end parse scenario
ScenarioBlocks ==
    << [header |-> [form |-> "hindi", n |-> <<"1">>,
                    line |-> <<"pra", "shn", "sp", "1", "dot", "sp", "w", "sp",
                               "2", "sp", "w">>],
        k |-> 4],
       [header |-> [form |-> "q", n |-> <<"2">>,
                    line |-> <<"Q", "dot", "2", "dot", "sp", "w">>],
        k |-> 2] >>

InitBlocks ==
    /\ p_blocks \in SeqsUpTo(Blocks, MaxBlocks) \ {<<>>}
    /\ \E blank \in BOOLEAN : p_text = BlockText(p_blocks, blank)
    /\ p_i = 1 /\ p_cur = <<>> /\ p_opts = <<>>
    /\ p_questions = <<>> /\ p_srcs = <<>> /\ p_cur_src = 0
    /\ p_pc = "loop"
    /\ IdleNorm /\ IdleAns /\ IdleConf /\ IdleClass /\ IdleScan /\ IdleOther

SpecBlocks == InitBlocks /\ [][NextParse]_vars

(***************************************************************************)
(* MCQDetector.detect_correct_answer called on a question text.            *)
(***************************************************************************)
\* The question texts tried: concatenations of these words and characters.
AnswerPieces ==
    { <<"sa", "hi_uttar">>, <<"A", "nswer">>, <<"colon">>, <<"sp">>,
      <<"ka">>, <<"D">>, <<"b">>, <<"lp">>, <<"cha">> }
RECURSIVE Concat(_)
Concat(ss) == IF ss = <<>> THEN <<>> ELSE Head(ss) \o Concat(Tail(ss))

InitAns ==
    /\ \E ps \in SeqsUpTo(AnswerPieces, MaxAnswerPieces) : a_text = Concat(ps)
    /\ a_result = "unset"
    /\ a_pc = "call"
    /\ IdleNorm /\ IdleParse /\ IdleConf /\ IdleClass /\ IdleScan /\ IdleOther

DetectCorrectAnswer ==
    /\ a_pc = "call"
    /\ a_result' = detect_correct_answer(a_text)
    /\ a_pc' = "done"
    /\ UNCHANGED <<a_text, normVars, parseVars, confVars, classVars, scanVars, otherVars>>

NextAns == DetectCorrectAnswer

SpecAns == InitAns /\ [][NextAns]_vars

(***************************************************************************)
(* HindiOCREngine.get_ocr_confidence called on one image.                  *)
(***************************************************************************)
ConfValues == {-1, 0, 60, 80, 90, 100}
TokenTexts == {<<>>, <<"sp">>, <<"sp", "a">>}
Tokens == [conf : ConfValues, text : TokenTexts]
\* the token sequence of the confidence scenario: 80, -1, 60, an empty text, 90
ScenarioTokens ==
    << [conf |-> 80, text |-> <<"sp", "a">>], [conf |-> -1, text |-> <<"sp", "a">>],
       [conf |-> 60, text |-> <<"sp", "a">>], [conf |-> 100, text |-> <<>>],
       [conf |-> 90, text |-> <<"sp", "a">>] >>

InitConf ==
    /\ \/ \E ts \in SeqsUpTo(Tokens, MaxTokens) \cup {ScenarioTokens} :
             c_data = [raises |-> FALSE, tokens |-> ts]
       \/ c_data = [raises |-> TRUE, tokens |-> <<>>]
    /\ c_result = Zero
    /\ c_pc = "call"
    /\ IdleNorm /\ IdleParse /\ IdleAns /\ IdleClass /\ IdleScan /\ IdleOther

GetOcrConfidence ==
    /\ c_pc = "call"
    /\ c_result' = get_ocr_confidence(c_data)
    /\ c_pc' = "done"
    /\ UNCHANGED <<c_data, normVars, parseVars, ansVars, classVars, scanVars, otherVars>>

NextConf == GetOcrConfidence

SpecConf == InitConf /\ [][NextConf]_vars

(***************************************************************************)
(* PDFHandler.is_text_based: the two extraction attempts.                  *)
(***************************************************************************)
RunKinds ==
    { [ws |-> TRUE, n |-> 1], [ws |-> FALSE, n |-> 1], [ws |-> FALSE, n |-> 49],
      [ws |-> FALSE, n |-> 50], [ws |-> FALSE, n |-> 100] }
ExtractionOutcomes ==
    {Raised} \cup {[st |-> "ok", text |-> t] : t \in SeqsUpTo(RunKinds, MaxRuns)}

InitClass ==
    /\ cl_out1 = NotRun /\ cl_out2 = NotRun
    /\ cl_result = "unset"
    /\ cl_pc = "pdfminer"
    /\ IdleNorm /\ IdleParse /\ IdleAns /\ IdleConf /\ IdleScan /\ IdleOther

\* try: text = extract_text(pdf_path) ... except Exception
TryPdfminer ==
    /\ cl_pc = "pdfminer"
    /\ \E o \in ExtractionOutcomes :
          /\ cl_out1' = o
          /\ cl_pc' = pdfminer_step(o).pc
          /\ cl_result' = pdfminer_step(o).result
    /\ UNCHANGED <<cl_out2, normVars, parseVars, ansVars, confVars, scanVars, otherVars>>

\* try: doc = fitz.open(pdf_path) ... except Exception; return False
TryFitz ==
    /\ cl_pc = "fitz"
    /\ \E o \in ExtractionOutcomes :
          /\ cl_out2' = o
          /\ cl_pc' = fitz_step(o).pc
          /\ cl_result' = fitz_step(o).result
    /\ UNCHANGED <<cl_out1, normVars, parseVars, ansVars, confVars, scanVars, otherVars>>

NextClass == TryPdfminer \/ TryFitz

SpecClass == InitClass /\ [][NextClass]_vars

(***************************************************************************)
(* PDFHandler.extract_text_from_scanned_pdf on one document.               *)
(***************************************************************************)
RawPageTexts == { <<"ka", "aa", "sp", "ka">>, <<"a", "nl", "1">> }
PageConfidences ==
    { [raises |-> FALSE,
       tokens |-> << [conf |-> 80, text |-> <<"a">>], [conf |-> -1, text |-> <<>>],
                     [conf |-> 60, text |-> <<"a">>] >>],
      [raises |-> TRUE, tokens |-> <<>>] }
Pages == [fail : {"none", "preprocess", "recognize"}, raw : RawPageTexts,
          conf : PageConfidences]

InitScan ==
    /\ s_pages \in SeqsUpTo(Pages, MaxPages)
    /\ s_fs = EmptyDir
    /\ s_image_paths = <<>>
    /\ s_i = 1
    /\ s_page_texts = <<>>
    /\ s_pc = "convert"
    /\ IdleNorm /\ IdleParse /\ IdleAns /\ IdleConf /\ IdleClass /\ IdleOther

\* convert_scanned_pdf_to_images completes: every page is rasterized and saved
ConvertPages ==
    /\ s_pc = "convert"
    /\ s_fs' = save_pages(write_rasters(s_fs, s_pages, Len(s_pages)),
                          s_pages, Len(s_pages))
    /\ s_image_paths' = [n \in 1..Len(s_pages) |-> PagePath(n)]
    /\ s_pc' = "ocr"
    /\ UNCHANGED <<s_pages, s_i, s_page_texts>>
    /\ UNCHANGED <<normVars, parseVars, ansVars, confVars, classVars, otherVars>>

\* convert_scanned_pdf_to_images raises, in convert_from_path after r pages
\* were rasterized or in img.save after k pages were saved: [] is returned
ConvertPagesFails ==
    /\ s_pc = "convert"
    /\ \/ \E r \in 0..Len(s_pages) : s_fs' = write_rasters(s_fs, s_pages, r)
       \/ \E k \in 0..(Len(s_pages) - 1) :
             s_fs' = save_pages(write_rasters(s_fs, s_pages, Len(s_pages)),
                                s_pages, k)
    /\ s_image_paths' = <<>>
    /\ s_pc' = "ocr"
    /\ UNCHANGED <<s_pages, s_i, s_page_texts>>
    /\ UNCHANGED <<normVars, parseVars, ansVars, confVars, classVars, otherVars>>

\* one iteration of `for i, img_path in enumerate(image_paths)`
OcrPage ==
    /\ s_pc = "ocr"
    /\ s_i <= Len(s_image_paths)
    /\ s_page_texts' =
          Append(s_page_texts, page_record(s_i, s_fs, s_image_paths[s_i]))
    /\ s_i' = next_page(s_i, extract_text_raises(s_fs, s_image_paths[s_i]),
                        Len(s_image_paths))
    /\ UNCHANGED <<s_pages, s_fs, s_image_paths, s_pc>>
    /\ UNCHANGED <<normVars, parseVars, ansVars, confVars, classVars, otherVars>>

\* after the loop: the cleanup loop and `return page_texts`
CleanUpAndReturn ==
    /\ s_pc = "ocr"
    /\ s_i > Len(s_image_paths)
    /\ s_fs' = remove_all(s_fs, s_image_paths)
    /\ s_pc' = "done"
    /\ UNCHANGED <<s_pages, s_image_paths, s_i, s_page_texts>>
    /\ UNCHANGED <<normVars, parseVars, ansVars, confVars, classVars, otherVars>>

NextScan == ConvertPages \/ ConvertPagesFails \/ OcrPage \/ CleanUpAndReturn

SpecScan == InitScan /\ [][NextScan]_vars

(***************************************************************************)
(* Two invocations of extract_text_from_scanned_pdf on one PDFHandler,     *)
(* running concurrently on different documents. self.temp_dir is created   *)
(* once, in __init__, so both invocations save page_N.png into the same    *)
(* directory. The files convert_from_path writes itself carry a name that  *)
(* is unique per call and are not read again; they are left out here.      *)
(* Steps interleave at the calls: the conversion, one loop iteration, the  *)
(* cleanup.                                                                *)
(***************************************************************************)
HandlerPages == {pg \in Pages : pg.fail = "none" /\ ~pg.conf.raises}
HandlerDocs == SeqsUpTo(HandlerPages, MaxPages) \ {<<>>}
restOfHandler ==
    <<normVars, parseVars, ansVars, confVars, classVars, scanVars, imageVars,
      exportVars, habitVars, storeVars>>

InitHandler ==
    /\ h_docs \in [Invocations -> HandlerDocs]
    /\ h_docs[1] # h_docs[2]
    /\ h_fs = EmptyDir
    /\ h_image_paths = [t \in Invocations |-> <<>>]
    /\ h_i = [t \in Invocations |-> 1]
    /\ h_page_texts = [t \in Invocations |-> <<>>]
    /\ h_pc = [t \in Invocations |-> "convert"]
    /\ IdleNorm /\ IdleParse /\ IdleAns /\ IdleConf /\ IdleClass /\ IdleScan
    /\ IdleImage /\ IdleExport /\ IdleHabit /\ IdleStore

\* convert_scanned_pdf_to_images of invocation t completes
HandlerConvertPages(t) ==
    /\ h_pc[t] = "convert"
    /\ h_fs' = save_pages(h_fs, h_docs[t], Len(h_docs[t]))
    /\ h_image_paths' =
          [h_image_paths EXCEPT ![t] = [n \in 1..Len(h_docs[t]) |-> PagePath(n)]]
    /\ h_pc' = [h_pc EXCEPT ![t] = "ocr"]
    /\ UNCHANGED <<h_docs, h_i, h_page_texts>>
    /\ UNCHANGED restOfHandler

\* one iteration of the OCR loop of invocation t
HandlerOcrPage(t) ==
    /\ h_pc[t] = "ocr"
    /\ h_i[t] <= Len(h_image_paths[t])
    /\ h_page_texts' =
          [h_page_texts EXCEPT
             ![t] = Append(@, page_record(h_i[t], h_fs, h_image_paths[t][h_i[t]]))]
    /\ h_i' = [h_i EXCEPT
                 ![t] = next_page(@, extract_text_raises(h_fs, h_image_paths[t][@]),
                                  Len(h_image_paths[t]))]
    /\ UNCHANGED <<h_docs, h_fs, h_image_paths, h_pc>>
    /\ UNCHANGED restOfHandler

\* the cleanup loop and the return of invocation t
HandlerCleanUpAndReturn(t) ==
    /\ h_pc[t] = "ocr"
    /\ h_i[t] > Len(h_image_paths[t])
    /\ h_fs' = remove_all(h_fs, h_image_paths[t])
    /\ h_pc' = [h_pc EXCEPT ![t] = "done"]
    /\ UNCHANGED <<h_docs, h_image_paths, h_i, h_page_texts>>
    /\ UNCHANGED restOfHandler

NextHandler ==
    \E t \in Invocations :
        \/ HandlerConvertPages(t)
        \/ HandlerOcrPage(t)
        \/ HandlerCleanUpAndReturn(t)

SpecHandler == InitHandler /\ [][NextHandler]_vars

(***************************************************************************)
(* HindiOCREngine.preprocess_image on one image file. Angles are whole     *)
(* degrees. No step of the function sits in a try block, so an exception   *)
(* of any cv2 call leaves the function.                                    *)
(***************************************************************************)
\* the correction angle computed from the angle cv2.minAreaRect reports
deskew_angle(angle) == IF angle < -45 THEN -(90 + angle) ELSE -angle

\* `if contours:` the image is cropped to the largest contour's box
crops(contours) == contours > 0

RectAngles == {-90, -89, -46, -45, -44, -1, 0, 1, 44, 45, 46, 89, 90}
ImageFiles ==
    [readable : BOOLEAN, foreground : BOOLEAN, rect : RectAngles,
     contours : 0..MaxContours, enhance : BOOLEAN]
restOfImage ==
    <<normVars, parseVars, ansVars, confVars, classVars, scanVars, handlerVars,
      exportVars, habitVars, storeVars>>

InitImage ==
    /\ im_in \in ImageFiles
    /\ im_pc = "read"
    /\ im_angle = <<>>
    /\ im_out = NoImage
    /\ IdleNorm /\ IdleParse /\ IdleAns /\ IdleConf /\ IdleClass /\ IdleScan
    /\ IdleHandler /\ IdleExport /\ IdleHabit /\ IdleStore

\* cv2.imread and cv2.cvtColor: imread gives None for a file it cannot
\* read, and cvtColor(None, ...) raises
ReadAndGray ==
    /\ im_pc = "read"
    /\ IF im_in.readable
       THEN /\ im_pc' = "threshold"
            /\ im_out' = [channels |-> 1, cropped |-> FALSE, scale |-> 1]
       ELSE /\ im_pc' = "raised"
            /\ UNCHANGED im_out
    /\ UNCHANGED <<im_in, im_angle>>
    /\ UNCHANGED restOfImage

\* the optional blurs and cv2.adaptiveThreshold
AdaptiveThreshold ==
    /\ im_pc = "threshold"
    /\ im_pc' = "deskew"
    /\ UNCHANGED <<im_in, im_angle, im_out>>
    /\ UNCHANGED restOfImage

\* the deskew step: cv2.minAreaRect of the non-zero pixels' coordinates
\* raises for an empty point set; else the correction angle and warpAffine
Deskew ==
    /\ im_pc = "deskew"
    /\ IF im_in.foreground
       THEN /\ im_angle' = <<deskew_angle(im_in.rect)>>
            /\ im_pc' = "crop"
       ELSE /\ im_pc' = "raised"
            /\ UNCHANGED im_angle
    /\ UNCHANGED <<im_in, im_out>>
    /\ UNCHANGED restOfImage

\* the optional CLAHE, the border, the crop to the largest contour when
\* there is one, the resize by 2.0 and the return
CropAndResize ==
    /\ im_pc = "crop"
    /\ im_out' = [channels |-> 1, cropped |-> crops(im_in.contours), scale |-> 2]
    /\ im_pc' = "done"
    /\ UNCHANGED <<im_in, im_angle>>
    /\ UNCHANGED restOfImage

NextImage == ReadAndGray \/ AdaptiveThreshold \/ Deskew \/ CropAndResize

SpecImage == InitImage /\ [][NextImage]_vars

(***************************************************************************)
(* JSON text as json.dump(..., ensure_ascii=False, indent=2) writes it and *)
(* json.load reads it. A Python value is [t, v]: t is "none", "str" (v the *)
(* characters), "int" (v = <<n>>), "list" (v the items) or "dict" (v the   *)
(* [k, val] members in insertion order). A file is a sequence of           *)
(* characters; "ws" is a newline with its indentation.                     *)
(***************************************************************************)
PyStr(chars) == [t |-> "str", v |-> chars]
PyInt(n) == [t |-> "int", v |-> <<n>>]
PyList(items) == [t |-> "list", v |-> items]
PyDict(members) == [t |-> "dict", v |-> members]
PyBool(b) == [t |-> "bool", v |-> <<b>>]

\* a mutant of escape_char: the backslash is written as it is
escape_char_raw_backslash(c) ==
    IF c = "dq" THEN <<"bs", "dq">>
    ELSE IF c = "nl" THEN <<"bs", "n">>
    ELSE <<c>>

\* json's string escapes: the quote, the backslash and the newline
escape_char(c) ==
    IF c = "dq" THEN <<"bs", "dq">>
    ELSE IF c = "bs" THEN <<"bs", "bs">>
    ELSE IF c = "nl" THEN <<"bs", "n">>
    ELSE <<c>>

unescape_char(c) == IF c = "n" THEN "nl" ELSE c

encode_string(chars) == <<"dq">> \o FlatMapSeq(escape_char, chars) \o <<"dq">>

DecimalDigits == <<"0", "1", "2", "3", "4", "5", "6", "7", "8", "9">>
RECURSIVE encode_int(_)
encode_int(n) ==
    IF n < 10 THEN <<DecimalDigits[n + 1]>>
    ELSE encode_int(n \div 10) \o <<DecimalDigits[(n % 10) + 1]>>

RECURSIVE json_dumps(_)
RECURSIVE dump_items(_)
RECURSIVE dump_members(_)
json_dumps(val) ==
    IF val.t = "none" THEN <<"null">>
    ELSE IF val.t = "str" THEN encode_string(val.v)
    ELSE IF val.t = "int" THEN encode_int(val.v[1])
    ELSE IF val.t = "bool" THEN (IF val.v[1] THEN <<"true">> ELSE <<"false">>)
    ELSE IF val.t = "list"
         THEN IF val.v = <<>> THEN <<"lbrack", "rbrack">>
              ELSE <<"lbrack", "ws">> \o dump_items(val.v) \o <<"ws", "rbrack">>
    ELSE IF val.v = <<>> THEN <<"lbrace", "rbrace">>
         ELSE <<"lbrace", "ws">> \o dump_members(val.v) \o <<"ws", "rbrace">>
dump_items(items) ==
    IF Len(items) = 1 THEN json_dumps(items[1])
    ELSE json_dumps(Head(items)) \o <<"comma", "ws">> \o dump_items(Tail(items))
dump_members(members) ==
    LET m == Head(members)
        one == encode_string(m.k) \o <<"colon", "sp">> \o json_dumps(m.val)
    IN IF Len(members) = 1 THEN one
       ELSE one \o <<"comma", "ws">> \o dump_members(Tail(members))

\* the reader: every operator gives [v, next], the value read and the
\* position after it
RECURSIVE skip_ws(_, _)
skip_ws(f, i) == IF At(f, i) \in {"ws", "sp", "nl"} THEN skip_ws(f, i + 1) ELSE i

RECURSIVE scan_string(_, _, _)
scan_string(f, j, acc) ==
    IF j > Len(f) \/ f[j] = "dq" THEN [v |-> PyStr(acc), next |-> j + 1]
    ELSE IF f[j] = "bs" THEN scan_string(f, j + 2, Append(acc, unescape_char(At(f, j + 1))))
    ELSE scan_string(f, j + 1, Append(acc, f[j]))

DigitValue(c) == CHOOSE d \in 0..9 : DecimalDigits[d + 1] = c
IsDigit(c) == \E d \in 0..9 : DecimalDigits[d + 1] = c
RECURSIVE scan_int(_, _, _)
scan_int(f, j, acc) ==
    IF IsDigit(At(f, j)) THEN scan_int(f, j + 1, 10 * acc + DigitValue(f[j]))
    ELSE [v |-> PyInt(acc), next |-> j]

RECURSIVE parse_value(_, _)
RECURSIVE parse_items(_, _, _)
RECURSIVE parse_members(_, _, _)
parse_value(f, i0) ==
    LET i == skip_ws(f, i0)
        c == At(f, i)
    IN IF c = "dq" THEN scan_string(f, i + 1, <<>>)
       ELSE IF c = "lbrack" THEN parse_items(f, i + 1, <<>>)
       ELSE IF c = "lbrace" THEN parse_members(f, i + 1, <<>>)
       ELSE IF IsDigit(c) THEN scan_int(f, i, 0)
       ELSE IF c \in {"true", "false"} THEN [v |-> PyBool(c = "true"), next |-> i + 1]
       ELSE [v |-> PyNone, next |-> i + 1]
parse_items(f, i0, acc) ==
    LET i == skip_ws(f, i0)
        c == At(f, i)
    IN IF c = "rbrack" \/ c = "eol" THEN [v |-> PyList(acc), next |-> i + 1]
       ELSE IF c = "comma" THEN parse_items(f, i + 1, acc)
       ELSE LET item == parse_value(f, i)
            IN parse_items(f, item.next, Append(acc, item.v))
parse_members(f, i0, acc) ==
    LET i == skip_ws(f, i0)
        c == At(f, i)
    IN IF c = "rbrace" \/ c = "eol" THEN [v |-> PyDict(acc), next |-> i + 1]
       ELSE IF c = "comma" THEN parse_members(f, i + 1, acc)
       ELSE LET key == scan_string(f, i + 1, <<>>)
                colon == skip_ws(f, key.next)
                val == parse_value(f, colon + 1)
            IN parse_members(f, val.next, Append(acc, [k |-> key.v.v, val |-> val.v]))

json_loads(f) == parse_value(f, 1).v

(***************************************************************************)
(* TestGenerator.generate_json_export and a reader of the written file.    *)
(***************************************************************************)
\* a question record as the Python dictionary it is
py_answer(a) == IF a = "None" THEN PyNone ELSE PyStr(<<a>>)
py_question(q) ==
    PyDict(<< [k |-> <<"question_number">>, val |-> PyStr(q.question_number)],
              [k |-> <<"question_text">>, val |-> PyStr(q.question_text)],
              [k |-> <<"options">>, val |-> PyList(MapSeq(PyStr, q.options))],
              [k |-> <<"correct_answer">>, val |-> py_answer(q.correct_answer)] >>)

\* `data` of generate_json_export
export_data(questions, now) ==
    PyDict(<< [k |-> <<"metadata">>,
               val |-> PyDict(<< [k |-> <<"generated_at">>, val |-> PyStr(now)],
                                 [k |-> <<"total_questions">>,
                                  val |-> PyInt(Len(questions))],
                                 [k |-> <<"language">>, val |-> PyStr(<<"Hindi">>)] >>)],
              [k |-> <<"questions">>, val |-> PyList(MapSeq(py_question, questions))] >>)

\* d[key] of a parsed dictionary (PyNone when the key is missing)
py_get(d, key) ==
    IF d.t = "dict" /\ \E j \in 1..Len(d.v) : d.v[j].k = key
    THEN d.v[CHOOSE j \in 1..Len(d.v) : d.v[j].k = key].val
    ELSE PyNone

ExportChars == {"ka", "dq", "bs", "nl", "n", "sp"}
ExportTexts == SeqsUpTo(ExportChars, MaxStrLen)
ExportOptionLists == { <<>>, << <<"ka", "sp", "ka">>, <<"bs">> >> }
ExportRecords ==
    [question_number : {<<"1">>}, question_text : ExportTexts,
     options : ExportOptionLists, correct_answer : {"None", "B"}]
FurtherRecords ==
    { [question_number |-> <<"2">>, question_text |-> <<"dq", "n">>,
       options |-> << <<"1">>, <<"nl">> >>, correct_answer |-> "A"],
      [question_number |-> <<"1", "2">>, question_text |-> <<"ka">>,
       options |-> << <<"ka">> >>, correct_answer |-> "None"] }
ExportLists ==
    {<<>>} \cup { <<r>> \o more : r \in ExportRecords,
                  more \in SeqsUpTo(FurtherRecords, MaxExportQuestions - 1) }
Timestamps == { <<"2", "0", "2", "6", "T", "1", "0">> }
restOfExport ==
    <<normVars, parseVars, ansVars, confVars, classVars, scanVars, handlerVars,
      imageVars, habitVars, storeVars>>

InitJson ==
    /\ x_questions \in ExportLists
    /\ x_now \in Timestamps
    /\ x_names = [html |-> NoName, json |-> FileName("questions", "json"), base |-> ""]
    /\ x_fs = EmptyDir
    /\ x_ret = <<>>
    /\ x_parsed = PyNone
    /\ x_pc = "json"
    /\ IdleNorm /\ IdleParse /\ IdleAns /\ IdleConf /\ IdleClass /\ IdleScan
    /\ IdleHandler /\ IdleImage /\ IdleHabit /\ IdleStore

\* generate_json_export(questions, filename): the file written, the path
\* returned
generate_json_export(fs, questions, now, filename) ==
    WriteFile(fs, filename, json_dumps(export_data(questions, now)))

JsonExportStep(from, to) ==
    /\ x_pc = from
    /\ x_fs' = generate_json_export(x_fs, x_questions, x_now, x_names.json)
    /\ x_ret' = Append(x_ret, x_names.json)
    /\ x_pc' = to
    /\ UNCHANGED <<x_questions, x_now, x_names, x_parsed>>
    /\ UNCHANGED restOfExport

GenerateJsonExport == JsonExportStep("json", "read")

\* json.load of the file just written
LoadJson ==
    /\ x_pc = "read"
    /\ x_parsed' = json_loads(x_fs[x_ret[Len(x_ret)]])
    /\ x_pc' = "done"
    /\ UNCHANGED <<x_questions, x_now, x_names, x_fs, x_ret>>
    /\ UNCHANGED restOfExport

NextJson == GenerateJsonExport \/ LoadJson

SpecJson == InitJson /\ [][NextJson]_vars

(***************************************************************************)
(* TestGenerator: generate_html_quiz, generate_json_export and             *)
(* generate_zip_export called one after the other on one directory.        *)
(***************************************************************************)
\* generate_html_quiz: the template with the questions and the timer put in
generate_html_quiz(fs, questions, filename, timer) ==
    WriteFile(fs, filename,
              <<"html_head">> \o json_dumps(PyList(MapSeq(py_question, questions)))
                  \o <<"html_script">> \o encode_int(timer) \o <<"html_tail">>)

\* generate_txt_export: the header lines, then the lines of each question
txt_option_lines(q) == FlatMapSeq(LAMBDA o : <<"sp", "sp", "letter", "rparen", "sp">> \o o \o <<"nl">>,
                                  q.options)
txt_question_lines(q) ==
    <<"pra", "shn", "sp", "index", "colon", "sp">> \o q.question_text \o <<"nl">>
        \o txt_option_lines(q)
        \o (IF q.correct_answer # "None"
            THEN <<"sp", "sp", "check", "sp", "sa", "hi_uttar", "colon", "sp",
                   q.correct_answer, "nl">>
            ELSE <<>>)
        \o <<"nl">>
generate_txt_export(fs, questions, now, filename) ==
    WriteFile(fs, filename,
              <<"title", "nl", "generated">> \o now \o <<"nl", "total">>
                  \o encode_int(Len(questions)) \o <<"nl", "rule", "nl", "nl">>
                  \o FlatMapSeq(txt_question_lines, questions))

\* zipf.write(path, basename): the entry added to the archive
zip_entry(fs, name) == <<"entry", name.stem, name.ext>> \o fs[name]

\* generate_zip_export: each format is written as <base>.<ext>, added to
\* the archive and removed; the archive is <base>.zip
generate_zip_export(fs, questions, now, base) ==
    LET json_file == FileName(base, "json")
        txt_file == FileName(base, "txt")
        html_file == FileName(base, "html")
        fs0 == WriteFile(fs, FileName(base, "zip"), <<>>)
        fs1 == generate_json_export(fs0, questions, now, json_file)
        e1 == zip_entry(fs1, json_file)
        fs2 == generate_txt_export(RemoveFile(fs1, json_file), questions, now, txt_file)
        e2 == zip_entry(fs2, txt_file)
        fs3 == generate_html_quiz(RemoveFile(fs2, txt_file), questions, html_file, 60)
        e3 == zip_entry(fs3, html_file)
    IN WriteFile(RemoveFile(fs3, html_file), FileName(base, "zip"),
                 <<"PK">> \o e1 \o e2 \o e3)

HtmlNames == {FileName("quiz", "html"), FileName("sample_quiz", "html")}
JsonNames == {FileName("questions", "json"), FileName("sample_questions", "json"),
              FileName("sample_quiz", "json")}
BaseNames == {"quiz_export", "sample_quiz"}
Timers == {60}

InitExport ==
    /\ x_questions \in SeqsUpTo(FurtherRecords, MaxExportQuestions)
    /\ x_now \in Timestamps
    /\ x_names \in [html : HtmlNames, json : JsonNames, base : BaseNames]
    /\ x_fs = EmptyDir
    /\ x_ret = <<>>
    /\ x_parsed = PyNone
    /\ x_pc = "html"
    /\ IdleNorm /\ IdleParse /\ IdleAns /\ IdleConf /\ IdleClass /\ IdleScan
    /\ IdleHandler /\ IdleImage /\ IdleHabit /\ IdleStore

GenerateHtmlQuiz ==
    /\ x_pc = "html"
    /\ \E timer \in Timers :
          x_fs' = generate_html_quiz(x_fs, x_questions, x_names.html, timer)
    /\ x_ret' = Append(x_ret, x_names.html)
    /\ x_pc' = "json_next"
    /\ UNCHANGED <<x_questions, x_now, x_names, x_parsed>>
    /\ UNCHANGED restOfExport

GenerateJsonExportNext == JsonExportStep("json_next", "zip")

GenerateZipExport ==
    /\ x_pc = "zip"
    /\ x_fs' = generate_zip_export(x_fs, x_questions, x_now, x_names.base)
    /\ x_ret' = Append(x_ret, FileName(x_names.base, "zip"))
    /\ x_pc' = "done"
    /\ UNCHANGED <<x_questions, x_now, x_names, x_parsed>>
    /\ UNCHANGED restOfExport

NextExport == GenerateHtmlQuiz \/ GenerateJsonExportNext \/ GenerateZipExport

SpecExport == InitExport /\ [][NextExport]_vars

(***************************************************************************)
(* FileStorage.add_habit and mark_habit_done for one user. A date string   *)
(* is [day, padded]: the calendar day it names, counted in days, and       *)
(* whether it is written zero-padded ('2024-01-05') or not ('2024-1-5');   *)
(* datetime.strptime(..., '%Y-%m-%d') reads both.                          *)
(***************************************************************************)
DateStrings == [day : 1..MaxDay, padded : BOOLEAN]
HabitNames == {"walk", "read"}

\* datetime.strptime(date_str, '%Y-%m-%d'): the day named
strptime(date_str) == date_str.day

\* the habit add_habit appends
new_habit(name) == [name |-> name, streak |-> 0, last_done |-> <<>>]

\* a mutant of streak_after: the streak grows whatever the gap is
streak_after_any_gap(habit, date_str) == habit.streak + 1

\* the streak mark_habit_done stores for a date other than last_done
streak_after(habit, date_str) ==
    IF habit.last_done # <<>>
    THEN IF strptime(date_str) - strptime(habit.last_done[1]) = 1
         THEN habit.streak + 1
         ELSE 1
    ELSE 1

\* the habit after mark_habit_done(user_id, habit_index, date_str)
mark_done(habit, date_str) ==
    IF habit.last_done = <<date_str>> THEN habit
    ELSE [habit EXCEPT !.streak = streak_after(habit, date_str),
                       !.last_done = <<date_str>>]

restOfHabit ==
    <<normVars, parseVars, ansVars, confVars, classVars, scanVars, handlerVars,
      imageVars, exportVars, storeVars>>

InitHabit ==
    /\ hb_habits = <<>>
    /\ hb_log = <<>>
    /\ IdleNorm /\ IdleParse /\ IdleAns /\ IdleConf /\ IdleClass /\ IdleScan
    /\ IdleHandler /\ IdleImage /\ IdleExport /\ IdleStore

AddHabit ==
    /\ Len(hb_habits) < Cardinality(HabitNames)
    /\ \E name \in HabitNames \ {hb_habits[j].name : j \in 1..Len(hb_habits)} :
          hb_habits' = Append(hb_habits, new_habit(name))
    /\ UNCHANGED hb_log
    /\ UNCHANGED restOfHabit

\* mark_habit_done with a 0-based habit_index; an index outside the list
\* returns False and changes nothing
MarkHabitDone ==
    /\ Len(hb_log) < MaxMarks
    /\ \E habit_index \in 0..Cardinality(HabitNames), date_str \in DateStrings :
          IF habit_index < Len(hb_habits)
          THEN /\ hb_habits' = [hb_habits EXCEPT
                                  ![habit_index + 1] = mark_done(@, date_str)]
               /\ hb_log' = Append(hb_log, [index |-> habit_index, date |-> date_str])
          ELSE UNCHANGED <<hb_habits, hb_log>>
    /\ UNCHANGED restOfHabit

NextHabit == AddHabit \/ MarkHabitDone

SpecHabit == InitHabit /\ [][NextHabit]_vars

(***************************************************************************)
(* Claims.                                                                 *)
(***************************************************************************)
\* C1: normalizing already-normalized text returns it unchanged:
\* normalize_text(normalize_text(x)) = normalize_text(x) for every input x.
C1_Idempotent == n_pass >= 2 => n_text = n_prev

\* C2: every question record in the list extract_questions builds and
\* returns has at least one option, whether it was flushed at a new question
\* boundary or at the end of the input.
C2_EmittedHaveOptions ==
    \A k \in 1..Len(p_questions) : Len(p_questions[k].options) >= 1

\* C2 witness: the call has returned two records, the first flushed at a
\* question boundary and the second at the end of the input.
C2_Witness ==
    /\ p_pc = "done"
    /\ Len(p_questions) = 2
    /\ p_cur_src = p_srcs[2]

\* claim-level vocabulary for the parser's input
IsQuestionStart(l) == strip(l) # <<>> /\ IsMatch(question_match(strip(l)))
IsOptionLine(l) ==
    strip(l) # <<>> /\ ~IsQuestionStart(l) /\ IsMatch(option_match(strip(l)))
NumberOf(l) == Group1(strip(l), question_match(strip(l)))
NextStart(i) ==
    LET later == {j \in (i + 1)..Len(p_text) : IsQuestionStart(p_text[j])}
    IN  IF later = {} THEN Len(p_text) + 1
        ELSE CHOOSE j \in later : \A m \in later : j <= m
HasOptionLine(i) == \E j \in (i + 1)..(NextStart(i) - 1) : IsOptionLine(p_text[j])
\* the question started by line i is in the output
Emitted(i) ==
    \E k \in 1..Len(p_questions) :
        p_srcs[k] = i /\ p_questions[k].question_number = NumberOf(p_text[i])

\* C3: a question-start line followed by no option line before the next
\* question-start line is absent from the output of extract_questions, and a
\* question-start line followed by at least one option line before the next
\* question start or the end of the input is present in it.
C3_DroppedWithoutOptions ==
    p_pc = "done" =>
        \A i \in 1..Len(p_text) :
            IsQuestionStart(p_text[i]) =>
                /\ (~HasOptionLine(i) /\ NextStart(i) <= Len(p_text)) => ~Emitted(i)
                /\ HasOptionLine(i) => Emitted(i)

\* C3 witness: the call has returned; a question start without options was
\* dropped and the question start right after it, which has options, was kept.
C3_Witness ==
    /\ p_pc = "done"
    /\ \E i \in 1..Len(p_text) :
          /\ IsQuestionStart(p_text[i])
          /\ NextStart(i) <= Len(p_text)
          /\ ~HasOptionLine(i) /\ ~Emitted(i)
          /\ HasOptionLine(NextStart(i)) /\ Emitted(NextStart(i))

\* what C4 expects of a block-structured text: one question per block, in
\* order, with the block's number token and its k options
BlocksParsedExactly ==
    /\ Len(p_questions) = Len(p_blocks)
    /\ \A b \in 1..Len(p_blocks) :
          /\ p_questions[b].question_number = p_blocks[b].header.n
          /\ Len(p_questions[b].options) = p_blocks[b].k

\* C4 as stated: for every text of headers "<prashn> N. ..." or "Q.N. ...",
\* each followed by k >= 1 option lines A), B), ..., extract_questions emits
\* exactly one question per header, in order, with number token N and k options.
C4_OnePerHeader ==
    (p_pc = "done" /\ p_blocks # <<>>
        /\ \A b \in 1..Len(p_blocks) : p_blocks[b].k >= 1)
    => BlocksParsedExactly

\* the text of a header after its numbering lead holds no numbering token
HeaderLead(h) == question_pattern_at(IF h.form = "hindi" THEN 1 ELSE 2, h.line, 1)
HeaderRest(h) == SubSeq(h.line, HeaderLead(h).end, Len(h.line))
HeaderTextPlain(h) ==
    \A k \in 1..NumQuestionPatterns : ~IsMatch(question_search(k, HeaderRest(h)))

\* C4 amended: the same, for blocks of 1 to 4 option lines (A) to D)) whose
\* header text, like the option texts, contains no numbering token.
C4_OnePerHeaderUpToFour ==
    (p_pc = "done" /\ p_blocks # <<>>
        /\ \A b \in 1..Len(p_blocks) :
              /\ p_blocks[b].k >= 1 /\ p_blocks[b].k <= 4
              /\ HeaderTextPlain(p_blocks[b].header))
    => BlocksParsedExactly

\* C4 witness: the scenario text was parsed into two questions, the first
\* numbered 1 with 4 options, the second numbered 2 with 2 options.
C4_Witness ==
    /\ p_pc = "done"
    /\ p_blocks = ScenarioBlocks
    /\ Len(p_text) = 10
    /\ Len(p_questions) = 2
    /\ p_questions[1].question_number = <<"1">> /\ Len(p_questions[1].options) = 4
    /\ p_questions[2].question_number = <<"2">> /\ Len(p_questions[2].options) = 2

\* claim-level vocabulary for answer markers
SahiUttarKa == <<"sa", "hi_uttar", "colon", "sp", "ka">>
AnswerD == <<"A", "nswer", "colon", "sp", "D">>
MarkerWordAt(text, i) ==
    \/ At(text, i) = "sa" /\ At(text, i + 1) = "hi_uttar"
    \/ At(text, i) = "A" /\ At(text, i + 1) = "nswer"
MarkerWordPositions(text) == {i \in 1..Len(text) : MarkerWordAt(text, i)}
OnlyMarkerIs(text, marker) ==
    /\ Cardinality(MarkerWordPositions(text)) = 1
    /\ \E i \in MarkerWordPositions(text) :
          /\ i + Len(marker) - 1 <= Len(text)
          /\ SubSeq(text, i, i + Len(marker) - 1) = marker

\* C5: detect_correct_answer returns A for a text whose only answer marker is
\* the Devanagari marker followed by ": ka", D for a text whose only answer
\* marker is "Answer: D", and None for a text with neither marker word.
C5_ResolvedLetters ==
    a_pc = "done" =>
        /\ OnlyMarkerIs(a_text, SahiUttarKa) => a_result = "A"
        /\ OnlyMarkerIs(a_text, AnswerD) => a_result = "D"
        /\ MarkerWordPositions(a_text) = {} => a_result = "None"

\* C5 witness: a text longer than its only marker, the Devanagari one, was
\* resolved to A.
C5_Witness ==
    /\ a_pc = "done"
    /\ OnlyMarkerIs(a_text, SahiUttarKa)
    /\ Len(a_text) > Len(SahiUttarKa)
    /\ a_result = "A"

\* C6: every emitted question is passed to the answer resolver: the record's
\* correct_answer is the letter detect_correct_answer resolves from the
\* question's text, and is unset only when no marker is found.
C6_AnswerResolved ==
    \A k \in 1..Len(p_questions) :
        p_questions[k].correct_answer =
            detect_correct_answer(p_questions[k].question_text)

\* claim-level vocabulary for token confidences
QualifyingTokens ==
    {i \in 1..Len(c_data.tokens) :
        /\ c_data.tokens[i].conf # -1
        /\ \E j \in 1..Len(c_data.tokens[i].text) :
              c_data.tokens[i].text[j] \notin WhitespaceChars}
RECURSIVE SumConf(_)
SumConf(I) ==
    IF I = {} THEN 0
    ELSE LET i == CHOOSE x \in I : TRUE
         IN  c_data.tokens[i].conf + SumConf(I \ {i})

\* C7: get_ocr_confidence returns the arithmetic mean of the confidences of
\* exactly the tokens whose confidence is not -1 and whose text is not empty or
\* whitespace-only, and 0 when no token qualifies; for confidences in 0..100
\* the result lies in 0..100.
C7_MeanOfQualifying ==
    (c_pc = "done" /\ ~c_data.raises) =>
        /\ c_result.den > 0
        /\ IF QualifyingTokens = {}
           THEN c_result.num = 0
           ELSE c_result.num * Cardinality(QualifyingTokens)
                    = SumConf(QualifyingTokens) * c_result.den
        /\ (\A i \in QualifyingTokens :
                c_data.tokens[i].conf >= 0 /\ c_data.tokens[i].conf <= 100)
           => (c_result.num >= 0 /\ c_result.num <= 100 * c_result.den)

\* C7 witness: the scenario's tokens gave (80 + 60 + 90) / 3.
C7_Witness ==
    /\ c_pc = "done"
    /\ c_data.tokens = ScenarioTokens
    /\ c_result.num * 3 = 230 * c_result.den

\* claim-level vocabulary for the classifier
RECURSIVE NonWhitespaceCount(_)
NonWhitespaceCount(text) ==
    IF text = <<>> THEN 0
    ELSE (IF Head(text).ws THEN 0 ELSE Head(text).n) + NonWhitespaceCount(Tail(text))
StrippedLength(text) == text_len(strip_runs(text))
Extractions == {cl_out1, cl_out2} \ {NotRun}

C9_FailuresAreNoText ==
    /\ cl_pc # "raised"
    /\ cl_pc = "done" =>
          /\ cl_result \in {"True", "False"}
          /\ cl_result = "True" <=>
                \E o \in Extractions : o.st = "ok" /\ StrippedLength(o.text) > Threshold
          /\ (cl_out1 = Raised /\ cl_out2 = Raised) => cl_result = "False"

\* C9 witness: both methods threw and the document was classified scanned.
C9_Witness ==
    /\ cl_pc = "done"
    /\ cl_out1 = Raised /\ cl_out2 = Raised
    /\ cl_result = "False"

\* what the record of page j is when the page is taken alone
RecordAlone(j) ==
    IF s_pages[j].fail # "none"
    THEN [page_number |-> j, text |-> <<>>, confidence |-> Zero]
    ELSE [page_number |-> j, text |-> normalize_text(s_pages[j].raw),
          confidence |-> get_ocr_confidence(s_pages[j].conf)]

\* C10: in extract_text_from_scanned_pdf a page whose preprocessing or
\* recognition raises gets a record with empty text and confidence 0, the
\* remaining pages are still processed, and every other page's record is what
\* it is when no page fails.
C10_PageFailureIsolated ==
    /\ \A j \in 1..Len(s_page_texts) :
          /\ j <= Len(s_pages)
          /\ s_page_texts[j] = RecordAlone(j)
    /\ s_pc = "done" => Len(s_page_texts) = Len(s_image_paths)

\* C10 witness: the call returned records for two pages; the first page
\* failed, the second did not and has its text.
C10_Witness ==
    /\ s_pc = "done"
    /\ Len(s_page_texts) = 2
    /\ s_pages[1].fail # "none"
    /\ s_page_texts[1].text = <<>> /\ s_page_texts[1].confidence = Zero
    /\ s_pages[2].fail = "none"
    /\ s_page_texts[2].text # <<>>

\* the value extract_text_from_pdf returns for the scanned document once
\* extract_text_from_scanned_pdf has returned
ScannedResult == extract_text_from_pdf(FALSE, <<>>, s_page_texts)
\* an ordinary result: the dictionary of a successful call, nothing else
IsOrdinaryResult(r) == DOMAIN r = {"type", "pages"} /\ r.type \in {"text", "scanned"}
\* recognition gave nothing usable: no page image, or every page failed
NoUsableRecognition ==
    \/ s_image_paths = <<>>
    \/ \A j \in 1..Len(s_image_paths) : s_pages[j].fail # "none"

\* C11: when recognition fails on every page of a scanned document, or no
\* page could be rasterized, extract_text_from_pdf surfaces an explicit
\* "no usable recognition" condition instead of an ordinary result whose
\* pages are all empty or whose page list is empty.
C11_NoUsableRecognitionSurfaced ==
    (s_pc = "done" /\ NoUsableRecognition) => ~IsOrdinaryResult(ScannedResult)

\* the page_N.png files the call saved that are still in temp_dir
PageFilesLeft == {q \in DOMAIN s_fs : q.kind = "page"}

\* C12: on every exit path of extract_text_from_scanned_pdf, none of the
\* page image files written for the call still exists when it returns.
C12_NoPageFileLeft == s_pc = "done" => PageFilesLeft = {}

\* C14: extract_text_from_scanned_pdf handles the page images in their
\* order and returns one record per page image of the document, numbered
\* 1..n in ascending order without gap or duplicate, whether or not pages
\* fail (n is the number of page images the conversion returned).
C14_OneRecordPerPageInOrder ==
    /\ \A j \in 1..Len(s_page_texts) : s_page_texts[j].page_number = j
    /\ s_pc = "ocr" => Len(s_page_texts) = s_i - 1
    /\ s_pc = "done" => Len(s_page_texts) = Len(s_image_paths)

\* C14 witness: two pages, the first failed, and the call returned the
\* records numbered 1 and 2.
C14_Witness ==
    /\ s_pc = "done"
    /\ Len(s_image_paths) = 2
    /\ s_pages[1].fail = "recognize" /\ s_pages[2].fail = "none"
    /\ [j \in 1..Len(s_page_texts) |-> s_page_texts[j].page_number] = <<1, 2>>

\* the records invocation t returns when no other invocation runs
HandlerRecordsAlone(t) ==
    [j \in 1..Len(h_docs[t]) |->
        [page_number |-> j, text |-> normalize_text(h_docs[t][j].raw),
         confidence |-> get_ocr_confidence(h_docs[t][j].conf)]]

\* C13: two invocations of extract_text_from_scanned_pdf running
\* concurrently on different documents share no mutable state, also on one
\* PDFHandler: no invocation overwrites, recognizes or deletes a page image
\* of the other, so each returns the records of its own document.
C13_InvocationsIsolated ==
    \A t \in Invocations :
        h_pc[t] = "done" => h_page_texts[t] = HandlerRecordsAlone(t)

\* C15: preprocess_image degrades gracefully: when no contour is found, or
\* the thresholded image has no foreground pixel for the deskew step, the
\* step is skipped and a single-channel image is still returned; the call
\* does not fail as a whole.
C15_DegradesGracefully ==
    (im_in.readable /\ im_pc \in {"done", "raised"}) =>
        /\ im_pc = "done"
        /\ im_out.channels = 1
        /\ (im_in.contours = 0 => ~im_out.cropped)

\* the angles the rectangle estimator reports for an upright rectangle
UprightAngles == {-90, 0, 90}

\* C16: for an already-upright image the correction angle preprocess_image
\* computes is within 1 degree of 0, for every angle the rectangle
\* estimator reports for an upright rectangle (-90, 0 or 90).
C16_UprightNearIdentity ==
    (im_in.rect \in UprightAngles /\ im_angle # <<>>) =>
        (im_angle[1] >= -1 /\ im_angle[1] <= 1)

\* C17: exporting question records with generate_json_export and parsing
\* the written file back gives, under "questions", the same records in the
\* same order (number, text, ordered options, answer letter or unset), and
\* metadata.total_questions is the number of records.
C17_JsonRoundTrip ==
    x_pc = "done" =>
        /\ py_get(x_parsed, <<"questions">>) = PyList(MapSeq(py_question, x_questions))
        /\ py_get(py_get(x_parsed, <<"metadata">>), <<"total_questions">>)
              = PyInt(Len(x_questions))

\* C17 witness: two records were exported and read back; the first has a
\* text with a backslash and a quote, no options and no answer, the second
\* has options and an answer.
C17_Witness ==
    /\ x_pc = "done"
    /\ Len(x_questions) = 2
    /\ x_questions[1].question_text = <<"bs", "dq">>
    /\ x_questions[1].options = <<>>
    /\ x_questions[1].correct_answer = "None"
    /\ x_questions[2].correct_answer = "A"
    /\ Len(py_get(x_parsed, <<"questions">>).v) = 2

\* C18: after generate_html_quiz, generate_json_export and
\* generate_zip_export were called in sequence on one directory, all three
\* returned paths exist and are non-empty: generate_zip_export removes only
\* its intermediate files, never a file that existed before the call.
C18_AllThreeFilesRemain ==
    (x_pc = "done" /\ Len(x_ret) = 3) =>
        \A k \in 1..3 : x_ret[k] \in DOMAIN x_fs /\ x_fs[x_ret[k]] # <<>>

\* the dates habit i (0-based) was marked with, in call order
RECURSIVE MarksOf(_, _)
MarksOf(log, i) ==
    IF log = <<>> THEN <<>>
    ELSE (IF Head(log).index = i THEN <<Head(log).date>> ELSE <<>>)
            \o MarksOf(Tail(log), i)
NonDecreasing(marks) ==
    \A j \in 1..(Len(marks) - 1) : marks[j].day <= marks[j + 1].day
MarkedDays(marks) == {marks[j].day : j \in 1..Len(marks)}
\* the length of the run of consecutive marked days that ends at day d
RunEndingAt(days, d) ==
    CHOOSE k \in 1..d : (\A e \in (d - k + 1)..d : e \in days)
                         /\ (d - k) \notin days
\* the first date string of marks that names day d
FirstMarkOf(marks, d) ==
    marks[CHOOSE j \in 1..Len(marks) :
              marks[j].day = d /\ \A l \in 1..(j - 1) : marks[l].day # d]

\* C19: a habit's streak is 0 after add_habit and 1 after its first
\* mark_habit_done; for mark_habit_done calls with non-decreasing dates the
\* streak is the length of the run of consecutive marked days ending at
\* last_done, and marking the same date again changes neither the streak
\* nor last_done.
C19_StreakIsRunLength ==
    \A i \in 1..Len(hb_habits) :
        LET marks == MarksOf(hb_log, i - 1)
            last == marks[Len(marks)].day
        IN NonDecreasing(marks) =>
              IF marks = <<>>
              THEN hb_habits[i].streak = 0 /\ hb_habits[i].last_done = <<>>
              ELSE /\ hb_habits[i].streak = RunEndingAt(MarkedDays(marks), last)
                   /\ hb_habits[i].last_done = <<FirstMarkOf(marks, last)>>

\* C19 (amended): the same, for calls whose dates are all written
\* zero-padded, as strftime('%Y-%m-%d') writes them: the streak is 0 after
\* add_habit, 1 after the first mark, the length of the run of consecutive
\* marked days ending at last_done for non-decreasing dates, and marking
\* the same date again changes neither the streak nor last_done.
C19_StreakIsRunLengthPadded ==
    \A i \in 1..Len(hb_habits) :
        LET marks == MarksOf(hb_log, i - 1)
            last == marks[Len(marks)].day
        IN (NonDecreasing(marks) /\ \A j \in 1..Len(marks) : marks[j].padded) =>
              IF marks = <<>>
              THEN hb_habits[i].streak = 0 /\ hb_habits[i].last_done = <<>>
              ELSE /\ hb_habits[i].streak = RunEndingAt(MarkedDays(marks), last)
                   /\ hb_habits[i].last_done = <<FirstMarkOf(marks, last)>>

\* C19 witness: a habit marked on day 1, on day 2 and on day 2 again, all
\* zero-padded, has streak 2.
C19_Witness ==
    /\ Len(hb_habits) >= 1
    /\ MarksOf(hb_log, 0) = << [day |-> 1, padded |-> TRUE],
                               [day |-> 2, padded |-> TRUE],
                               [day |-> 2, padded |-> TRUE] >>
    /\ hb_habits[1].streak = 2
    /\ hb_habits[1].last_done = << [day |-> 2, padded |-> TRUE] >>

\* punctuation and blanks that may follow a numbering token
LeadPunctuation == {"dot", "rp", "colon", "sp", "tab"}
RECURSIVE DropLeadPunctuation(_)
DropLeadPunctuation(line) ==
    IF line # <<>> /\ Head(line) \in LeadPunctuation
    THEN DropLeadPunctuation(Tail(line)) ELSE line
\* a question-start line without its numbering lead
WithoutLead(line) ==
    LET qm == question_match(line)
    IN  DropLeadPunctuation(SubSeq(line, qm.end, Len(line)))

\* C20: when a line starts with a question-start lead ('pra-shn N.', 'Q.N',
\* bare 'N.', '(N)'), the new current question's initial text is that line
\* with the leading numbering token and punctuation stripped: the text
\* never begins with the numbering lead.
C20_LeadStripped ==
    (p_pc = "loop" /\ p_cur # <<>> /\ p_i = p_cur_src + 1) =>
        LET line == strip(p_text[p_cur_src])
        IN  question_match(line).start = 1 => p_cur[1].text = WithoutLead(line)

\* the line the for loop reads next, stripped
NextLine == strip(p_text[p_i])
\* the line begins with a bare 'N.'
BeginsWithBareNumber(line) == IsMatch(question_pattern_at(3, line, 1))
InQuestion == p_cur # <<>>
ReadsLine == p_pc = "loop" /\ p_i <= Len(p_text)

\* C21: question-start patterns are checked before option patterns, so a
\* line beginning with a bare 'N.' read while InQuestion always starts a new
\* question and is never appended as an option; no parser step records an
\* option through the bare 'N.' option pattern.
C21_BareNumberStartsQuestion ==
    [][ReadsLine =>
          /\ (InQuestion /\ BeginsWithBareNumber(NextLine)) =>
                 /\ p_cur_src' = p_i
                 /\ p_opts' = <<>>
                 /\ p_cur' # <<>>
          /\ Len(p_opts') = Len(p_opts) + 1 =>
                 first_option_pattern(1, NextLine) # 4]_vars

\* C21 witness: the second line begins with a bare 'N.', was read while
\* InQuestion and started the current question.
C21_Witness ==
    /\ p_pc = "loop" /\ p_i = 3 /\ Len(p_text) >= 2
    /\ IsMatch(question_match(strip(p_text[1])))
    /\ BeginsWithBareNumber(strip(p_text[2]))
    /\ p_cur_src = 2 /\ p_cur # <<>> /\ p_opts = <<>>

\* the line begins with an option lead: 'A)'..'D)', 'A.'..'D.' or a
\* parenthesized Devanagari letter
BeginsWithOptionLead(line) ==
    \E k \in 1..3 : IsMatch(option_pattern_match(k, line))
OptionLeadEnd(line) ==
    option_pattern_match(CHOOSE k \in 1..3 : IsMatch(option_pattern_match(k, line)),
                         line).end

\* C22: a line that begins with an option lead and is read while
\* InQuestion is always appended as an option to the current question and
\* never starts a new question, whatever its remaining text is.
C22_OptionLeadAppends ==
    [][(ReadsLine /\ InQuestion /\ BeginsWithOptionLead(NextLine)) =>
          /\ p_opts' = Append(p_opts,
                   strip(SubSeq(NextLine, OptionLeadEnd(NextLine), Len(NextLine))))
          /\ p_cur' = p_cur
          /\ p_cur_src' = p_cur_src]_vars

\* the positions at which question pattern k matches in the line
MatchPositions(k, line) ==
    {i \in 1..Len(line) : IsMatch(question_pattern_at(k, line, i))}
MatchingPatterns(line) ==
    {k \in 1..NumQuestionPatterns : MatchPositions(k, line) # {}}
Least(S) == CHOOSE x \in S : \A y \in S : x <= y
\* the token captured by the first pattern of the list that matches
FirstListedNumber(line) ==
    LET k == Least(MatchingPatterns(line))
        m == question_pattern_at(k, line, Least(MatchPositions(k, line)))
    IN  SubSeq(line, m.g1from, m.g1to - 1)

\* C23: question-start detection is first-match-wins in list order: for a
\* line matched by more than one question-start pattern the question number
\* is the token captured by the pattern that comes first in the list,
\* wherever in the line each pattern matches.
C23_FirstListedPatternWins ==
    (p_pc = "loop" /\ p_cur # <<>>) =>
        p_cur[1].number = FirstListedNumber(strip(p_text[p_cur_src]))

\* C23 witness: the current question was started by a line in which 'Q.1'
\* matches at the start and 'pra-shn 2.' later; its number is 2.
C23_Witness ==
    /\ p_pc = "loop" /\ p_cur # <<>>
    /\ LET line == strip(p_text[p_cur_src])
       IN  /\ MatchingPatterns(line) = {1, 2, 3}
           /\ Least(MatchPositions(2, line)) < Least(MatchPositions(1, line))
    /\ p_cur[1].number = <<"2">>

\* the line matches neither a question-start pattern nor an option pattern
MatchesNeither(line) ==
    /\ MatchingPatterns(line) = {}
    /\ \A k \in 1..NumOptionPatterns : ~IsMatch(option_pattern_match(k, line))

\* C24: while InQuestion every non-blank line that matches neither pattern
\* set is appended, joined by a single space and in input order, to the
\* current question's text and changes neither the option list nor the
\* output list; read while NoQuestion such a line changes nothing.
C24_ContinuationAppends ==
    [][(ReadsLine /\ NextLine # <<>> /\ MatchesNeither(NextLine)) =>
          /\ p_opts' = p_opts
          /\ p_questions' = p_questions
          /\ IF InQuestion
             THEN /\ p_cur'[1].text = p_cur[1].text \o <<"sp">> \o NextLine
                  /\ p_cur'[1].number = p_cur[1].number
                  /\ Len(p_cur') = 1
             ELSE p_cur' = <<>>]_vars

\* C24 witness: a question was started by the first line and the next two
\* lines, matching neither pattern set, were appended to its text in order.
C24_Witness ==
    /\ p_pc = "loop" /\ p_i = 4 /\ p_cur_src = 1 /\ p_cur # <<>>
    /\ MatchesNeither(strip(p_text[2])) /\ strip(p_text[2]) # <<>>
    /\ MatchesNeither(strip(p_text[3])) /\ strip(p_text[3]) # <<>>
    /\ strip(p_text[2]) # strip(p_text[3])
    /\ p_cur[1].text = strip_question_lead(strip(p_text[1])) \o <<"sp">>
                          \o strip(p_text[2]) \o <<"sp">> \o strip(p_text[3])
    /\ p_opts = <<>>

\* the remainders of the option lines among lines j .. e - 1, in input order
RECURSIVE OptionsBetween(_, _)
OptionsBetween(j, e) ==
    IF j >= e THEN <<>>
    ELSE LET line == strip(p_text[j])
         IN  (IF BeginsWithOptionLead(line)
              THEN <<strip(SubSeq(line, OptionLeadEnd(line), Len(line)))>>
              ELSE <<>>) \o OptionsBetween(j + 1, e)

\* C25: the option list of every emitted question equals, in input order,
\* the remainders (text after the matched lead, trimmed) of exactly the
\* option lines read between the question's start line and the next
\* question start or the end of the input.
C25_OptionsAreTheOptionLines ==
    \A r \in 1..Len(p_questions) :
        p_questions[r].options =
            OptionsBetween(p_srcs[r] + 1, NextStart(p_srcs[r]))

\* C25 witness: two questions were emitted; the first has the options of
\* its three option lines, which differ, the second those of its two.
C25_Witness ==
    /\ p_pc = "done"
    /\ Len(p_questions) = 2
    /\ p_questions[1].options = << <<"1", "2">>, <<"w">>, <<"1", "2">> >>
    /\ p_questions[2].options = << <<"1", "2">>, <<"w">> >>

(***************************************************************************)
(* Line breaks and matra spacing in normalize_text.                        *)
(***************************************************************************)
\* text.split('\n')
RECURSIVE SplitLines(_)
SplitLines(text) ==
    IF \A i \in 1..Len(text) : text[i] # "nl" THEN <<text>>
    ELSE LET i == CHOOSE k \in 1..Len(text) :
                      text[k] = "nl" /\ \A j \in 1..(k - 1) : text[j] # "nl"
         IN <<SubSeq(text, 1, i - 1)>> \o SplitLines(SubSeq(text, i + 1, Len(text)))

\* the lines the parser does not skip: those with a character besides whitespace
NonBlankLineCount(text) ==
    Cardinality({i \in 1..Len(SplitLines(text)) : strip(SplitLines(text)[i]) # <<>>})

\* every character of the text is one the broken-character filter keeps
AllKept(text) == remove_broken(nfkc(text)) = nfkc(text)

\* C26: a raw text with k non-blank lines normalizes to a text that splits on
\* line breaks into k non-blank lines.
C26_LineBreaksKept ==
    (n_pass >= 1 /\ AllKept(n_prev)) =>
        NonBlankLineCount(n_text) = NonBlankLineCount(n_prev)

\* the text as it reaches fix_matras
before_matras(text) ==
    normalize_line_breaks(collapse_ws(apply_replacements(remove_broken(nfkc(text)))))

\* the correction as described: a space immediately before a vowel sign of the
\* table is removed, every other character is kept
RECURSIVE remove_space_before_matra(_)
remove_space_before_matra(text) ==
    IF text = <<>> THEN <<>>
    ELSE IF Head(text) = "sp" /\ Len(text) > 1
                /\ \E k \in 1..Len(matra_fixes) : text[2] = matra_fixes[k]
         THEN remove_space_before_matra(Tail(text))
         ELSE <<Head(text)>> \o remove_space_before_matra(Tail(text))

\* C27: the matra-spacing correction removes a space that immediately precedes a
\* vowel sign of its table and no other space; a space after a vowel sign is kept.
C27_SpaceBeforeMatraRemoved ==
    n_pass >= 1 => n_text = strip(remove_space_before_matra(before_matras(n_prev)))

(***************************************************************************)
(* The letters of answer_map beyond D.                                     *)
(***************************************************************************)
SahiUttarCha == <<"sa", "hi_uttar", "colon", "sp", "cha">>
AnswerCha == <<"A", "nswer", "colon", "sp", "cha">>

\* C28: an answer marker followed by the Devanagari letter cha is resolved to E,
\* as ka is resolved to A: the letters E to H of the table are results of
\* detect_correct_answer.
C28_ChaResolvesToE ==
    a_pc = "done" =>
        /\ OnlyMarkerIs(a_text, SahiUttarCha) => a_result = "E"
        /\ OnlyMarkerIs(a_text, AnswerCha) => a_result = "E"

(***************************************************************************)
(* When the page images are deleted.                                       *)
(***************************************************************************)
\* recognition of page i + 1 is about to begin: page i has its record
BeforePage(i) ==
    s_pc = "ocr" /\ s_i = i + 1 /\ s_i <= Len(s_image_paths)
        /\ Len(s_page_texts) = i

\* C29: the image file of page i is deleted after recognition of page i
\* completes and before recognition of page i + 1 begins.
C29_PageFileDeletedPerPage ==
    \A i \in 1..MaxPages : BeforePage(i) => s_image_paths[i] \notin DOMAIN s_fs

(***************************************************************************)
(* FileStorage (core/file_storage.py): the four dictionaries, keyed by     *)
(* user id, that every mutating call writes to users.json, tasks.json,     *)
(* habits.json and expenses.json, and that a new FileStorage on the same   *)
(* data_dir reads back.                                                    *)
(***************************************************************************)
\* key in d
dict_has(d, key) == \E j \in 1..Len(d) : d[j].k = key
\* d.get(key, default)
dict_get(d, key, default) ==
    IF dict_has(d, key) THEN d[CHOOSE j \in 1..Len(d) : d[j].k = key].val
    ELSE default
\* d[key] = val: a present key keeps its place, a new key goes last
dict_set(d, key, val) ==
    IF dict_has(d, key)
    THEN [j \in 1..Len(d) |-> IF d[j].k = key THEN [k |-> key, val |-> val] ELSE d[j]]
    ELSE Append(d, [k |-> key, val |-> val])

\* json.dump writes an int key of a dictionary as the string of its digits
key_str(key) == IF key.t = "int" THEN encode_int(key.v[1]) ELSE key.v
\* json.dump(self._users, f, indent=2, ensure_ascii=False, default=str)
dump_dict(d) ==
    json_dumps(PyDict([j \in 1..Len(d) |-> [k |-> key_str(d[j].k), val |-> d[j].val]]))
\* json.load(f) of an object: every key is a str; of members with one key the
\* last value is kept
RECURSIVE dict_of_members(_, _)
dict_of_members(members, acc) ==
    IF members = <<>> THEN acc
    ELSE dict_of_members(Tail(members),
                         dict_set(acc, PyStr(Head(members).k), Head(members).val))
\* a missing file leaves the dictionary empty
load_dict(f) == IF f = <<>> THEN <<>> ELSE dict_of_members(json_loads(f).v, <<>>)

save_all_data(mem) ==
    [users |-> dump_dict(mem.users), tasks |-> dump_dict(mem.tasks),
     habits |-> dump_dict(mem.habits), expenses |-> dump_dict(mem.expenses)]
load_all_data(files) ==
    [users |-> load_dict(files.users), tasks |-> load_dict(files.tasks),
     habits |-> load_dict(files.habits), expenses |-> load_dict(files.expenses)]

\* rec[key] = val on a record (a dictionary with str keys)
with_field(rec, key, val) ==
    PyDict([j \in 1..Len(rec.v) |->
               IF rec.v[j].k = key THEN [k |-> key, val |-> val] ELSE rec.v[j]])

new_user(user_id, username, first_name, now) ==
    PyDict(<< [k |-> <<"user_id">>, val |-> PyInt(user_id)],
              [k |-> <<"username">>, val |-> PyStr(username)],
              [k |-> <<"first_name">>, val |-> PyStr(first_name)],
              [k |-> <<"last_name">>, val |-> PyNone],
              [k |-> <<"chat_id">>, val |-> PyNone],
              [k |-> <<"created_at">>, val |-> PyStr(now)],
              [k |-> <<"last_interaction">>, val |-> PyStr(now)],
              [k |-> <<"xp">>, val |-> PyInt(0)],
              [k |-> <<"level">>, val |-> PyInt(1)],
              [k |-> <<"discipline_score">>, val |-> PyInt(0)],
              [k |-> <<"voice_on">>, val |-> PyBool(FALSE)] >>)
updated_user(rec, username, first_name, now) ==
    with_field(with_field(with_field(with_field(with_field(rec,
        <<"username">>, PyStr(username)),
        <<"first_name">>, PyStr(first_name)),
        <<"last_name">>, PyNone),
        <<"chat_id">>, PyNone),
        <<"last_interaction">>, PyStr(now))

\* save_user(user_id, username, first_name), before the save
save_user(mem, user_id, username, first_name, now) ==
    [mem EXCEPT !.users =
        IF ~dict_has(@, PyInt(user_id))
        THEN dict_set(@, PyInt(user_id), new_user(user_id, username, first_name, now))
        ELSE dict_set(@, PyInt(user_id),
                      updated_user(dict_get(@, PyInt(user_id), PyNone),
                                   username, first_name, now))]

\* self._tasks[user_id].append(item), after the `not in` test
list_append(d, user_id, item) ==
    dict_set(d, PyInt(user_id),
             PyList(Append(dict_get(d, PyInt(user_id), PyList(<<>>)).v, item)))

new_task(text, date, now) ==
    PyDict(<< [k |-> <<"text">>, val |-> PyStr(text)],
              [k |-> <<"date">>, val |-> PyStr(date)],
              [k |-> <<"time">>, val |-> PyNone],
              [k |-> <<"completed">>, val |-> PyBool(FALSE)],
              [k |-> <<"created_at">>, val |-> PyStr(now)] >>)
add_task(mem, user_id, text, date, now) ==
    [mem EXCEPT !.tasks = list_append(@, user_id, new_task(text, date, now))]

stored_habit(name, now) ==
    PyDict(<< [k |-> <<"name">>, val |-> PyStr(name)],
              [k |-> <<"description">>, val |-> PyNone],
              [k |-> <<"created_at">>, val |-> PyStr(now)],
              [k |-> <<"streak">>, val |-> PyInt(0)],
              [k |-> <<"last_done">>, val |-> PyNone] >>)
add_habit(mem, user_id, name, now) ==
    [mem EXCEPT !.habits = list_append(@, user_id, stored_habit(name, now))]

\* date is not passed: str(datetime.now().date()) is stored
new_expense(amount, category, today, now) ==
    PyDict(<< [k |-> <<"amount">>, val |-> PyInt(amount)],
              [k |-> <<"category">>, val |-> PyStr(category)],
              [k |-> <<"description">>, val |-> PyNone],
              [k |-> <<"date">>, val |-> PyStr(today)],
              [k |-> <<"created_at">>, val |-> PyStr(now)] >>)
add_expense(mem, user_id, amount, category, today, now) ==
    [mem EXCEPT !.expenses = list_append(@, user_id, new_expense(amount, category, today, now))]

get_user(mem, user_id) == dict_get(mem.users, PyInt(user_id), PyNone)
get_user_tasks(mem, user_id) == dict_get(mem.tasks, PyInt(user_id), PyList(<<>>))
get_user_habits(mem, user_id) == dict_get(mem.habits, PyInt(user_id), PyList(<<>>))
get_user_expenses(mem, user_id) == dict_get(mem.expenses, PyInt(user_id), PyList(<<>>))

UserIds == {1, 12}
Usernames == { <<"a">>, <<"ka", "dq">> }
StoreDates == { <<"2", "0", "2", "6", "hy", "0", "1", "hy", "0", "1">> }
Amounts == {7, 10}
restOfStore ==
    <<normVars, parseVars, ansVars, confVars, classVars, scanVars, handlerVars,
      imageVars, exportVars, habitVars>>

\* FileStorage(data_dir) on an empty directory
InitStore ==
    /\ st_mem = EmptyStore
    /\ st_files = EmptyStore
    /\ st_calls = 0
    /\ IdleNorm /\ IdleParse /\ IdleAns /\ IdleConf /\ IdleClass /\ IdleScan
    /\ IdleHandler /\ IdleImage /\ IdleExport /\ IdleHabit

\* a mutating call: the dictionary is changed, then _save_all_data writes all files
StoreCall(mem) ==
    /\ st_calls < MaxCalls
    /\ st_mem' = mem
    /\ st_files' = save_all_data(mem)
    /\ st_calls' = st_calls + 1
    /\ UNCHANGED restOfStore

SaveUser ==
    \E user_id \in UserIds, username \in Usernames, now \in Timestamps :
        StoreCall(save_user(st_mem, user_id, username, <<"a">>, now))
AddTask ==
    \E user_id \in UserIds, date \in StoreDates, now \in Timestamps :
        StoreCall(add_task(st_mem, user_id, <<"a", "sp", "ka">>, date, now))
AddStoredHabit ==
    \E user_id \in UserIds, now \in Timestamps :
        StoreCall(add_habit(st_mem, user_id, <<"ka">>, now))
AddExpense ==
    \E user_id \in UserIds, amount \in Amounts, today \in StoreDates, now \in Timestamps :
        StoreCall(add_expense(st_mem, user_id, amount, <<"a">>, today, now))

\* a new FileStorage on the same data_dir takes the place of the live one
Reload ==
    /\ st_mem' = load_all_data(st_files)
    /\ UNCHANGED <<st_files, st_calls, restOfStore>>

NextStore == SaveUser \/ AddTask \/ AddStoredHabit \/ AddExpense \/ Reload

SpecStore == InitStore /\ [][NextStore]_vars

\* C30: a FileStorage reloaded from the same JSON files returns from get_user,
\* get_user_tasks, get_user_habits and get_user_expenses, for the same integer
\* user id, the same records as before the reload.
C30_ReloadKeepsRecords ==
    [][Reload =>
          \A user_id \in UserIds :
              /\ get_user(st_mem', user_id) = get_user(st_mem, user_id)
              /\ get_user_tasks(st_mem', user_id) = get_user_tasks(st_mem, user_id)
              /\ get_user_habits(st_mem', user_id) = get_user_habits(st_mem, user_id)
              /\ get_user_expenses(st_mem', user_id) = get_user_expenses(st_mem, user_id)]_vars

=============================================================================
